---- MODULE Spec2Model ----
(***************************************************************************)
(* BlueGauge watcher / reconciliation subsystem.                           *)
(*                                                                         *)
(*   src/src/bluetooth/watch.rs  presence watcher, Watcher::start/stop     *)
(*   src/src/bluetooth/ble.rs    BLE watcher: battery debounce and status  *)
(*                                                                         *)
(* Each handler of the source is one action.  The OS side (device          *)
(* callbacks, the clock) is the environment; its actions build the events  *)
(* exactly as the callbacks of the source do and try_send them.            *)
(***************************************************************************)
EXTENDS Integers, Sequences, FiniteSets, TLC

----------------------------------------------------------------------------
(* Bounds of the model *)

\* the clock runs from 0 to MaxTime seconds
MaxTime == 30
\* seconds between two observations of the clock
TickStep == 5
\* events the environment leaves queued in the channels before a consumer runs
MaxInFlight == 1
\* presence changes counted by restart_flag before the environment stops
MaxGeneration == 2

----------------------------------------------------------------------------
(* Program constants *)

\* ble.rs:227  const BATTERY_STABILITY_DURATION: Duration = Duration::from_secs(15)
BATTERY_STABILITY_DURATION == 15
\* ble.rs:228  const MINIMUM_UPDATE_INTERVAL: Duration = Duration::from_secs(20)
MINIMUM_UPDATE_INTERVAL == 20
\* ble.rs:258, watch.rs:332  tokio::sync::mpsc::channel(10)
ChannelCapacity == 10

\* NotifyOptions::default, low_battery
LOW_BATTERY_DEFAULT == 15
\* notify.rs:52  else if diff > 10
HYSTERESIS == 10

----------------------------------------------------------------------------
(* Values *)

\* u64 device addresses: 1 is a Bluetooth LE device, 2 a Classic device
BleAddress == 1
BtcAddress == 2
Address == {BleAddress, BtcAddress}

\* battery bytes the devices report
BatteryLevels == {41, 42, 50}

\* info.rs BluetoothType (the Classic instance id is a function of the address)
BluetoothType == {"LowEnergy", "Classic"}

\* a second Bluetooth LE device, for the watchers that subscribe per device
SecondBleAddress == 3
BleDevices == {BleAddress, SecondBleAddress}
AllAddress == Address \cup BleDevices

TypeOf(a) == IF a = BtcAddress THEN "Classic" ELSE "LowEnergy"

NameOf(a) == IF a = BleAddress THEN "ble" ELSE IF a = BtcAddress THEN "btc" ELSE "ble2"

\* the threads of watch_loop besides the presence watcher
BleWatcher == "watch_ble_devices"
BtcStatusWatcher == "watch_btc_devices_status"
BtcBatteryWatcher == "watch_btc_devices_battery"
Subscribers == {BleWatcher, BtcStatusWatcher}
Watchers == Subscribers \cup {BtcBatteryWatcher}

\* the handlers a watcher registers on a device: WatchBLEGuard holds the
\* tokens of ConnectionStatusChanged and ValueChanged, WatchBTCGuard the
\* token of ConnectionStatusChanged
TokenSlots ==
    {<<a, h>> : a \in BleDevices, h \in {"ConnectionStatusChanged", "ValueChanged"}}
    \cup {<<BtcAddress, "ConnectionStatusChanged">>}

\* Option::None of BatteryState.pending_state; Some((v, t)) is <<v, t>>
None == <<>>

\* info.rs BluetoothInfo
BluetoothInfo(name, battery, status, address, type) ==
    [name |-> name, battery |-> battery, status |-> status,
     address |-> address, type |-> type]

\* BluetoothInfo { address, ..Default::default() } of the Removed callback;
\* the default variant of BluetoothType is not visible in the source, so it
\* is a parameter
DefaultInfo(address, type) == BluetoothInfo("", 0, FALSE, address, type)

VARIABLES
    bluetooth_device_map,  \* the registry: address -> BluetoothInfo
    restart_flag,          \* the shared generation counter
    presence_rx,           \* channel of watch_bt_presence_async
    ble_rx,                \* channel of watch_ble_devices_async
    battery_states,        \* address -> BatteryState of the BLE watcher
    now,                   \* Instant::now(), in seconds
    ble_battery,           \* battery byte the BLE device currently reports
    ble_status,            \* connection status the BLE device currently reports
    emitted,               \* proxy.send_event calls of the last step, in order
    eval,                  \* locals of the last BatteryLevel evaluation
    run_value,             \* value of the current run of identical readings
    run_commits,           \* registry battery writes during that run
    btc_rx,                \* channel of watch_btc_devices_status_async
    btc_status,            \* connection status the Classic device currently reports
    app_rx,                \* UserEvents sent to the event loop and not yet handled
    notified_devices,      \* App.notified_devices: addresses already notified as low
    low_battery,           \* Config.notify_options.low_battery, the threshold
    handled,               \* the UserEvent App::user_event handled last
    exit_flag,             \* Watcher.exit_flag
    presence_thread,       \* whether the presence watcher thread still runs
    scenario,              \* progress of the readings 42, 41, 42, 42, 42
    low_notices,           \* low-battery toasts of an address since its last clearing event
    phase,                 \* progress of the notified / disconnect / reconnect scenario
    resolutions,           \* outcome of the Added callback of each address
    registry_changes,      \* presence events that changed the registry so far
    removed_addresses,     \* addresses the presence watcher removed, no Added event since
    threads,               \* state of the BLE, Classic status and Classic battery threads
    local_generation,      \* local_generation of each of these threads
    guard,                 \* addresses in the scopeguard map of each subscribing watcher
    handlers,              \* handlers registered on each device and not removed
    poller_pc,             \* position of watch_btc_devices_battery in its loop
    original_btc_devices,  \* the registry clone the battery poller works on
    pnp_devices_info,      \* the Plug-and-Play batteries the poller has read
    joined,                \* handles Watcher::stop has joined so far
    stop_notices,          \* handle names Watcher::stop has reported an error for
    pnp_calls,             \* what the next calls of get_pnp_devices will return
    btc_devices,           \* the devices passed to get_btc_devices_info, with their status
    scan_result,           \* "Ok" or "Err" once get_btc_devices_info has returned
    scan_enumerations,     \* calls of get_pnp_devices it made
    scan_sleeps,           \* 2 second sleeps it made
    devices_info,          \* the map it returned
    task_pc,               \* position of btc.rs watch_btc_devices_battery
    task_generation,       \* its local_generation
    btc_snapshot,          \* addresses of its original_btc_devices_instance_id
    task_writes,           \* its btc_devices: <<address, new battery>> still to write
    pnp_battery,           \* battery the Plug-and-Play device currently reports
    channel_full,          \* whether a try_send of a callback found its channel full
    update_pending         \* the update_event call the presence watcher is about to make

\* the Classic status watcher
btcVars == <<btc_rx, btc_status>>

\* the event loop and the notifier
appVars == <<app_rx, notified_devices, low_battery, handled>>

\* Watcher::start / Watcher::stop
lifeVars == <<exit_flag, presence_thread>>

\* the subscriptions of the two subscribing watchers
subVars == <<guard, handlers>>

\* the Classic battery poller
pollVars == <<poller_pc, original_btc_devices, pnp_devices_info>>

\* the joins of Watcher::stop
stopVars == <<joined, stop_notices>>

\* one call of get_btc_devices_info
scanVars == <<pnp_calls, btc_devices, scan_result, scan_enumerations,
              scan_sleeps, devices_info>>

\* the battery task of btc.rs
taskVars == <<task_pc, task_generation, btc_snapshot, task_writes, pnp_battery>>

\* what runs beside the watcher threads
extraVars == <<stopVars, scanVars, taskVars, channel_full, update_pending>>

\* the three watcher threads besides the presence watcher
watchVars == <<threads, local_generation, subVars, pollVars, extraVars>>

vars == <<bluetooth_device_map, restart_flag, presence_rx, ble_rx,
          battery_states, now, ble_battery, ble_status, emitted, eval,
          run_value, run_commits, btcVars, appVars, lifeVars,
          scenario, low_notices, phase, resolutions, registry_changes,
          removed_addresses, watchVars>>

----------------------------------------------------------------------------
(* Maps and channels *)

\* events the event loop holds at most
MaxQueued == 2

\* events queued in the channels and not yet received
InFlight == Len(presence_rx) + Len(ble_rx) + Len(btc_rx)

\* HashMap::insert / Entry::insert
MapInsert(m, k, v) == [x \in (DOMAIN m) \cup {k} |-> IF x = k THEN v ELSE m[x]]

\* HashMap::remove
MapRemove(m, k) == [x \in (DOMAIN m) \ {k} |-> m[x]]

EmptyMap == [x \in {} |-> 0]

\* Sender::try_send on a bounded channel: the message is dropped when full
try_send(q, m) == IF Len(q) < ChannelCapacity THEN Append(q, m) ELSE q

\* the events of UserEvent this subsystem raises
UpdateTray == [event |-> "UpdateTray"]
NotifyAdded(name) == [name |-> name, event |-> "Added"]
NotifyRemoved(name) == [name |-> name, event |-> "Removed"]
NotifyLowBattery(name, battery, address) ==
    [name |-> name, battery |-> battery, address |-> address, event |-> "LowBattery"]
NotifyReconnect(name) == [name |-> name, event |-> "Reconnect"]
NotifyDisconnect(name) == [name |-> name, event |-> "Disconnect"]

NoEval == [kind |-> "none"]

\* the presence watcher is not between a registry write and update_event
NoUpdate ==
    [name |-> "", info |-> DefaultInfo(BleAddress, "LowEnergy"), presence |-> "none"]

\* run_value before any reading was evaluated
NoReading == -1

\* the registry the startup scan may have built from the devices in S
ScannedRegistry(S, b, s) ==
    [a \in S |-> BluetoothInfo(NameOf(a), b[a], s[a], a, TypeOf(a))]

\* the parts of the program a specification leaves out, at rest
NoEvent == [event |-> "none"]

InitBtc ==
    /\ btc_rx = <<>>
    /\ btc_status = TRUE

\* App::new: nothing notified yet, the threshold as configured
InitApp(threshold) ==
    /\ app_rx = <<>>
    /\ notified_devices = {}
    /\ low_battery = threshold
    /\ handled = NoEvent

\* Watcher::start
InitLife ==
    /\ exit_flag = FALSE
    /\ presence_thread = "running"

InitObservers ==
    /\ scenario = [n |-> 0, at |-> 0, commits |-> 0]
    /\ low_notices = [a \in Address |-> 0]
    /\ phase = "none"
    /\ resolutions = [a \in Address |-> "none"]
    /\ registry_changes = 0
    /\ removed_addresses = {}

\* Watcher::stop has not been called
InitStop ==
    /\ joined = 0
    /\ stop_notices = <<>>

\* get_btc_devices_info is not being called
InitScan ==
    /\ pnp_calls = <<>>
    /\ btc_devices = EmptyMap
    /\ scan_result = "none"
    /\ scan_enumerations = 0
    /\ scan_sleeps = 0
    /\ devices_info = EmptyMap

\* the battery task of btc.rs is not spawned
InitTask ==
    /\ task_pc = "off"
    /\ task_generation = 0
    /\ btc_snapshot = {}
    /\ task_writes = {}
    /\ pnp_battery = 50

InitExtra ==
    /\ InitStop
    /\ InitScan
    /\ InitTask
    /\ channel_full = FALSE
    /\ update_pending = NoUpdate

\* the three other threads at rest: running, no generation seen, nothing
\* subscribed, the poller asleep
InitWatchers ==
    /\ threads = [w \in Watchers |-> "running"]
    /\ local_generation = [w \in Watchers |-> 0]
    /\ guard = [w \in Subscribers |-> {}]
    /\ handlers = [slot \in TokenSlots |-> 0]
    /\ poller_pc = "sleep"
    /\ original_btc_devices = EmptyMap
    /\ pnp_devices_info = EmptyMap

InitWatch ==
    /\ InitExtra
    /\ InitWatchers

----------------------------------------------------------------------------
(* Presence watcher: watch.rs *)

\* PresenceAddedSend sending a default-valued entry when resolution failed
PresenceAddedSend_SendOnFailure(a, resolved, battery, status) ==
    /\ InFlight < MaxInFlight
    /\ presence_rx' =
         try_send(presence_rx,
                  [info |-> IF resolved
                            THEN BluetoothInfo(NameOf(a), battery, status, a, TypeOf(a))
                            ELSE DefaultInfo(a, TypeOf(a)),
                   presence |-> "Added"])
    /\ emitted' = <<>>
    /\ eval' = NoEval
    /\ UNCHANGED <<bluetooth_device_map, restart_flag, ble_rx, battery_states,
                   now, ble_battery, ble_status, run_value, run_commits>>
    /\ UNCHANGED <<removed_addresses, watchVars,
                   btcVars, appVars, lifeVars, scenario, low_notices, phase,
                   registry_changes>>

\* create_handler!, Added arm: the device info is resolved in the callback
\* and sent only when resolution succeeded
PresenceAddedSend(a, resolved, battery, status) ==
    /\ InFlight < MaxInFlight
    /\ presence_rx' =
         IF resolved
         THEN try_send(presence_rx,
                       [info |-> BluetoothInfo(NameOf(a), battery, status, a, TypeOf(a)),
                        presence |-> "Added"])
         ELSE presence_rx
    /\ emitted' = <<>>
    /\ eval' = NoEval
    /\ UNCHANGED <<bluetooth_device_map, restart_flag, ble_rx, battery_states,
                   now, ble_battery, ble_status, run_value, run_commits>>
    /\ UNCHANGED <<removed_addresses, watchVars,
                   btcVars, appVars, lifeVars, scenario, low_notices, phase,
                   registry_changes>>

PresenceAddedCallback(a, resolved, battery, status) ==
    /\ PresenceAddedSend(a, resolved, battery, status)
    /\ UNCHANGED resolutions

\* create_handler!, Removed arm: only the address is resolved
PresenceRemovedCallback(a, type) ==
    /\ InFlight < MaxInFlight
    /\ presence_rx' = try_send(presence_rx,
                               [info |-> DefaultInfo(a, type), presence |-> "Removed"])
    /\ emitted' = <<>>
    /\ eval' = NoEval
    /\ UNCHANGED <<bluetooth_device_map, restart_flag, ble_rx, battery_states,
                   now, ble_battery, ble_status, run_value, run_commits>>
    /\ UNCHANGED <<removed_addresses, watchVars,
                   btcVars, appVars, lifeVars, scenario, low_notices, phase,
                   resolutions, registry_changes>>

\* the update_event closure: bump the generation, refresh the tray, notify
update_event_signals(presence, name) ==
    <<UpdateTray, IF presence = "Added" THEN NotifyAdded(name) ELSE NotifyRemoved(name)>>

\* PresenceRegistry with the Added arm overwriting the entry it finds
PresenceRegistry_Overwrite(map, info, presence) ==
    IF presence = "Added"
    THEN MapInsert(map, info.address, info)
    ELSE IF info.address \notin DOMAIN map
         THEN MapInsert(map, info.address, info)
         ELSE MapRemove(map, info.address)

\* the registry after the rx.recv() arm has handled (info, presence)
PresenceRegistry(map, info, presence) ==
    IF info.address \notin DOMAIN map
    THEN MapInsert(map, info.address, info)
    ELSE IF presence = "Added" THEN map ELSE MapRemove(map, info.address)

\* whether the rx.recv() arm calls update_event for (info, presence)
PresenceUpdates(map, info, presence) ==
    info.address \notin DOMAIN map \/ presence = "Removed"

\* the name handed to update_event
PresenceName(map, info) ==
    IF info.address \notin DOMAIN map THEN info.name ELSE map[info.address].name

\* watch_bt_presence_async, the rx.recv() arm of the select
PresenceRecvArm ==
    /\ presence_rx # <<>>
    /\ restart_flag < MaxGeneration
    /\ LET info == Head(presence_rx).info
           presence == Head(presence_rx).presence
           updates == PresenceUpdates(bluetooth_device_map, info, presence)
       IN /\ presence_rx' = Tail(presence_rx)
          /\ bluetooth_device_map' = PresenceRegistry(bluetooth_device_map, info, presence)
          /\ restart_flag' = IF updates THEN restart_flag + 1 ELSE restart_flag
          /\ emitted' = IF updates
                        THEN update_event_signals(presence,
                                                  PresenceName(bluetooth_device_map, info))
                        ELSE <<>>
    /\ eval' = NoEval
    /\ UNCHANGED <<ble_rx, battery_states, now, ble_battery, ble_status,
                   run_value, run_commits>>
    /\ UNCHANGED <<watchVars, btcVars, appVars, exit_flag, scenario, low_notices,
                   phase, resolutions>>

\* the order of the two effects of the rx.recv() arm on an event that
\* changes the registry: e.insert(info) or remove(&info.address) first,
\* restart_flag.fetch_add(1) inside update_event second
PresenceOrder_GenerationFirst == <<"generation", "registry">>

PresenceOrder == <<"registry", "generation">>

PresenceEffect(which, info, presence) ==
    IF which = "registry"
    THEN /\ bluetooth_device_map' =
               PresenceRegistry(bluetooth_device_map, info, presence)
         /\ registry_changes' = registry_changes + 1
         /\ UNCHANGED restart_flag
    ELSE /\ restart_flag' = restart_flag + 1
         /\ UNCHANGED <<bluetooth_device_map, registry_changes>>

PresenceHalfFrame ==
    /\ eval' = NoEval
    /\ UNCHANGED <<ble_rx, battery_states, now, ble_battery, ble_status,
                   run_value, run_commits>>
    /\ UNCHANGED <<btcVars, appVars, lifeVars, scenario, low_notices, phase,
                   resolutions, removed_addresses, threads, local_generation,
                   subVars, pollVars, stopVars, scanVars, taskVars, channel_full>>

\* the rx.recv() arm up to the call of update_event: the event is taken
\* from the channel and the registry is written
PresenceRegistryWrite ==
    /\ presence_rx # <<>>
    /\ update_pending = NoUpdate
    /\ restart_flag < MaxGeneration
    /\ LET info == Head(presence_rx).info
           presence == Head(presence_rx).presence
       IN /\ presence_rx' = Tail(presence_rx)
          /\ IF PresenceUpdates(bluetooth_device_map, info, presence)
             THEN /\ PresenceEffect(PresenceOrder[1], info, presence)
                  /\ update_pending' =
                        [name |-> PresenceName(bluetooth_device_map, info),
                         info |-> info, presence |-> presence]
             ELSE UNCHANGED <<bluetooth_device_map, restart_flag,
                              registry_changes, update_pending>>
    /\ emitted' = <<>>
    /\ PresenceHalfFrame

\* the call of update_event: the generation is incremented, then the tray
\* refresh and the notification are sent
PresenceUpdateEvent ==
    /\ update_pending # NoUpdate
    /\ PresenceEffect(PresenceOrder[2], update_pending.info, update_pending.presence)
    /\ emitted' = update_event_signals(update_pending.presence, update_pending.name)
    /\ update_pending' = NoUpdate
    /\ UNCHANGED presence_rx
    /\ PresenceHalfFrame

\* the arm while Watcher::stop has not been called
PresenceRecv ==
    /\ PresenceRecvArm
    /\ UNCHANGED <<presence_thread, registry_changes, removed_addresses>>

\* the rx.recv() arm of the presence watcher, with the addresses recorded
\* that it removed and for which no Added event came since
PresenceRecvTracked ==
    /\ PresenceRecvArm
    /\ LET info == Head(presence_rx).info
           presence == Head(presence_rx).presence
       IN removed_addresses' =
            IF presence = "Added"
            THEN removed_addresses \ {info.address}
            ELSE IF info.address \in DOMAIN bluetooth_device_map
                 THEN removed_addresses \cup {info.address}
                 ELSE removed_addresses
    /\ UNCHANGED <<presence_thread, registry_changes>>

\* Watcher::stop up to the join of the threads: the two stores
WatcherStop ==
    /\ ~exit_flag
    /\ exit_flag' = TRUE
    /\ restart_flag' = 0
    /\ emitted' = <<>>
    /\ eval' = NoEval
    /\ UNCHANGED <<bluetooth_device_map, presence_rx, ble_rx, battery_states,
                   now, ble_battery, ble_status, run_value, run_commits>>
    /\ UNCHANGED <<removed_addresses, watchVars,
                   btcVars, appVars, presence_thread, scenario, low_notices,
                   phase, resolutions, registry_changes>>

\* the rx.recv() arm of a thread that Watcher::stop will join: the loop
\* ends after the arm when the exit flag is set by then
PresenceRecvJoined ==
    /\ presence_thread = "running"
    /\ registry_changes < MaxGeneration
    /\ PresenceRecvArm
    /\ presence_thread' = IF exit_flag THEN "done" ELSE "running"
    /\ registry_changes' =
          IF bluetooth_device_map' # bluetooth_device_map
          THEN registry_changes + 1
          ELSE registry_changes
    /\ UNCHANGED removed_addresses

\* the exit-flag arm of the select wins and the thread returns
PresenceExit ==
    /\ exit_flag
    /\ presence_thread = "running"
    /\ presence_thread' = "done"
    /\ emitted' = <<>>
    /\ eval' = NoEval
    /\ UNCHANGED <<bluetooth_device_map, restart_flag, presence_rx, ble_rx,
                   battery_states, now, ble_battery, ble_status, run_value,
                   run_commits>>
    /\ UNCHANGED <<removed_addresses, watchVars,
                   btcVars, appVars, exit_flag, scenario, low_notices, phase,
                   resolutions, registry_changes>>

----------------------------------------------------------------------------
(* BLE watcher: ble.rs *)

\* struct BatteryState
BatteryState(last_update, last_value, pending_state) ==
    [last_update |-> last_update, last_value |-> last_value,
     pending_state |-> pending_state]

\* the BatteryLevel and ConnectionStatus variants of BluetoothLEUpdate
BatteryLevel(address, battery) ==
    [address |-> address, kind |-> "BatteryLevel", value |-> battery]
ConnectionStatus(address, status) ==
    [address |-> address, kind |-> "ConnectionStatus", value |-> status]

\* watch_ble_device, the ValueChanged handler: the byte read from the
\* notification is sent as it is
BleBatteryCallback(a, battery) ==
    /\ InFlight < MaxInFlight
    /\ ble_battery' = battery
    /\ ble_rx' = try_send(ble_rx, BatteryLevel(a, battery))
    /\ emitted' = <<>>
    /\ eval' = NoEval
    /\ UNCHANGED <<bluetooth_device_map, restart_flag, presence_rx, battery_states,
                   now, ble_status, run_value, run_commits>>
    /\ UNCHANGED <<removed_addresses, watchVars,
                   btcVars, appVars, lifeVars, scenario, low_notices, phase,
                   resolutions, registry_changes>>

\* watch_ble_device, the ConnectionStatusChanged handler
BleStatusCallback(a, status) ==
    /\ InFlight < MaxInFlight
    /\ ble_status' = status
    /\ ble_rx' = try_send(ble_rx, ConnectionStatus(a, status))
    /\ emitted' = <<>>
    /\ eval' = NoEval
    /\ UNCHANGED <<bluetooth_device_map, restart_flag, presence_rx, battery_states,
                   now, ble_battery, run_value, run_commits>>
    /\ UNCHANGED <<removed_addresses, watchVars,
                   btcVars, appVars, lifeVars, scenario, low_notices, phase,
                   resolutions, registry_changes>>

\* LogicA measuring the stability window from the last commit instead of
\* from the time the pending value was first seen
LogicA_AgeFromCommit(state, new_battery, t) ==
    IF state.last_value = new_battery
    THEN [pending_state |-> None, should_report |-> FALSE]
    ELSE IF state.pending_state # None
         THEN IF state.pending_state[1] = new_battery
              THEN [pending_state |-> state.pending_state,
                    should_report |->
                        t - state.last_update >= BATTERY_STABILITY_DURATION]
              ELSE [pending_state |-> <<new_battery, t>>, should_report |-> FALSE]
         ELSE [pending_state |-> <<new_battery, t>>, should_report |-> FALSE]

\* LogicA with the stability window compared by > instead of >=
LogicA_StrictStability(state, new_battery, t) ==
    IF state.last_value = new_battery
    THEN [pending_state |-> None, should_report |-> FALSE]
    ELSE IF state.pending_state # None
         THEN IF state.pending_state[1] = new_battery
              THEN [pending_state |-> state.pending_state,
                    should_report |->
                        t - state.pending_state[2] > BATTERY_STABILITY_DURATION]
              ELSE [pending_state |-> <<new_battery, t>>, should_report |-> FALSE]
         ELSE [pending_state |-> <<new_battery, t>>, should_report |-> FALSE]

\* LogicA that leaves the pending value alone when the reading equals the
\* last committed value
LogicA_KeepPending(state, new_battery, t) ==
    IF state.last_value = new_battery
    THEN [pending_state |-> state.pending_state, should_report |-> FALSE]
    ELSE IF state.pending_state # None
         THEN IF state.pending_state[1] = new_battery
              THEN [pending_state |-> state.pending_state,
                    should_report |->
                        t - state.pending_state[2] >= BATTERY_STABILITY_DURATION]
              ELSE [pending_state |-> <<new_battery, t>>, should_report |-> FALSE]
         ELSE [pending_state |-> <<new_battery, t>>, should_report |-> FALSE]

\* LogicA that keeps the first-seen time when the pending value is replaced
LogicA_NoRestart(state, new_battery, t) ==
    IF state.last_value = new_battery
    THEN [pending_state |-> None, should_report |-> FALSE]
    ELSE IF state.pending_state # None
         THEN IF state.pending_state[1] = new_battery
              THEN [pending_state |-> state.pending_state,
                    should_report |->
                        t - state.pending_state[2] >= BATTERY_STABILITY_DURATION]
              ELSE [pending_state |-> <<new_battery, state.pending_state[2]>>,
                    should_report |-> FALSE]
         ELSE [pending_state |-> <<new_battery, t>>, should_report |-> FALSE]

\* LogicA that keeps the older pending value when the reading differs from it
LogicA_StalePending(state, new_battery, t) ==
    IF state.last_value = new_battery
    THEN [pending_state |-> None, should_report |-> FALSE]
    ELSE IF state.pending_state # None
         THEN IF state.pending_state[1] = new_battery
              THEN [pending_state |-> state.pending_state,
                    should_report |->
                        t - state.pending_state[2] >= BATTERY_STABILITY_DURATION]
              ELSE [pending_state |-> state.pending_state, should_report |-> FALSE]
         ELSE [pending_state |-> <<new_battery, t>>, should_report |-> FALSE]

\* LogicA that reports a repeated pending value without the stability window
LogicA_NoWindow(state, new_battery, t) ==
    IF state.last_value = new_battery
    THEN [pending_state |-> None, should_report |-> FALSE]
    ELSE IF state.pending_state # None
         THEN IF state.pending_state[1] = new_battery
              THEN [pending_state |-> state.pending_state, should_report |-> TRUE]
              ELSE [pending_state |-> <<new_battery, t>>, should_report |-> FALSE]
         ELSE [pending_state |-> <<new_battery, t>>, should_report |-> FALSE]

\* "Logic A": is the new value stable?  Gives the pending state and
\* should_report as they are when line 334 is reached at time t.
LogicA(state, new_battery, t) ==
    IF state.last_value = new_battery
    THEN [pending_state |-> None, should_report |-> FALSE]
    ELSE IF state.pending_state # None
         THEN IF state.pending_state[1] = new_battery
              THEN [pending_state |-> state.pending_state,
                    should_report |->
                        t - state.pending_state[2] >= BATTERY_STABILITY_DURATION]
              ELSE [pending_state |-> <<new_battery, t>>, should_report |-> FALSE]
         ELSE [pending_state |-> <<new_battery, t>>, should_report |-> FALSE]

\* LogicB forcing an update without waiting for the update interval
LogicB_NoInterval(state, a, new_battery, t) ==
    LET forced == /\ ~a.should_report
                  /\ state.last_value # new_battery
    IN [should_report |-> a.should_report \/ forced,
        forced |-> forced,
        value_to_report |-> IF forced /\ a.pending_state # None
                            THEN a.pending_state[1]
                            ELSE new_battery]

\* LogicB with the update interval compared by > instead of >=
LogicB_StrictInterval(state, a, new_battery, t) ==
    LET forced == /\ ~a.should_report
                  /\ t - state.last_update > MINIMUM_UPDATE_INTERVAL
                  /\ state.last_value # new_battery
    IN [should_report |-> a.should_report \/ forced,
        forced |-> forced,
        value_to_report |-> IF forced /\ a.pending_state # None
                            THEN a.pending_state[1]
                            ELSE new_battery]

\* LogicB without the comparison of the reading with the last value
LogicB_NoValueCheck(state, a, new_battery, t) ==
    LET forced == /\ ~a.should_report
                  /\ t - state.last_update >= MINIMUM_UPDATE_INTERVAL
    IN [should_report |-> a.should_report \/ forced,
        forced |-> forced,
        value_to_report |-> IF forced /\ a.pending_state # None
                            THEN a.pending_state[1]
                            ELSE new_battery]

\* "Logic B": the forced periodic update, evaluated after Logic A gave a
LogicB(state, a, new_battery, t) ==
    LET forced == /\ ~a.should_report
                  /\ t - state.last_update >= MINIMUM_UPDATE_INTERVAL
                  /\ state.last_value # new_battery
    IN [should_report |-> a.should_report \/ forced,
        forced |-> forced,
        value_to_report |-> IF forced /\ a.pending_state # None
                            THEN a.pending_state[1]
                            ELSE new_battery]

\* Debounced that does not clear the pending state after a report
Debounced_KeepPending(state, new_battery, t) ==
    LET a == LogicA(state, new_battery, t)
        b == LogicB(state, a, new_battery, t)
    IN IF b.should_report
       THEN BatteryState(t, b.value_to_report, a.pending_state)
       ELSE BatteryState(state.last_update, state.last_value, a.pending_state)

\* the BatteryState after the Occupied arm ran at time t
Debounced(state, new_battery, t) ==
    LET a == LogicA(state, new_battery, t)
        b == LogicB(state, a, new_battery, t)
    IN IF b.should_report
       THEN BatteryState(t, b.value_to_report, None)
       ELSE BatteryState(state.last_update, state.last_value, a.pending_state)

\* proxy.send_event calls of the Occupied arm followed by the trailing
\* need_update_tray check
OccupiedSignals(info, b) ==
    IF b.should_report
    THEN <<NotifyLowBattery(info.name, b.value_to_report, info.address), UpdateTray>>
    ELSE <<>>

\* proxy.send_event calls of the Vacant arm followed by the trailing
\* need_update_tray check
VacantSignals(info, new_battery) == <<UpdateTray>>

\* the run of identical readings the evaluated reading belongs to
RunStep(new_battery, committed) ==
    /\ run_value' = new_battery
    /\ run_commits' = (IF run_value = new_battery THEN run_commits ELSE 0)
                      + (IF committed THEN 1 ELSE 0)

\* watch_ble_devices_async, rx.recv() arm, BluetoothLEUpdate::BatteryLevel
BleRecvBattery(address, new_battery) ==
    IF address \notin DOMAIN bluetooth_device_map
    THEN \* the address is not in the device map: continue
         /\ eval' = [address |-> address, kind |-> "skipped",
                     at |-> now, reading |-> new_battery]
         /\ emitted' = <<>>
         /\ RunStep(new_battery, FALSE)
         /\ UNCHANGED <<bluetooth_device_map, battery_states>>
    ELSE LET info == bluetooth_device_map[address] IN
         IF address \notin DOMAIN battery_states
         THEN \* Vacant: first time seeing this device
              /\ bluetooth_device_map' =
                     [bluetooth_device_map EXCEPT ![address].battery = new_battery]
              /\ battery_states' =
                     MapInsert(battery_states, address,
                               BatteryState(now, new_battery, None))
              /\ emitted' = VacantSignals(info, new_battery)
              /\ eval' = [address |-> address, kind |-> "first",
                          at |-> now, reading |-> new_battery]
              /\ RunStep(new_battery, TRUE)
         ELSE \* Occupied
              LET state == battery_states[address]
                  a == LogicA(state, new_battery, now)
                  b == LogicB(state, a, new_battery, now)
              IN /\ battery_states' =
                        [battery_states EXCEPT
                            ![address] = Debounced(state, new_battery, now)]
                 /\ bluetooth_device_map' =
                        IF b.should_report
                        THEN [bluetooth_device_map EXCEPT
                                 ![address].battery = b.value_to_report]
                        ELSE bluetooth_device_map
                 /\ emitted' = OccupiedSignals(info, b)
                 /\ eval' = [address |-> address,
                             kind |-> IF b.should_report THEN "commit" ELSE "held",
                             at |-> now,
                             forced |-> b.forced,
                             value_to_report |-> b.value_to_report,
                             reading |-> new_battery,
                             before |-> state,
                             registry_before |-> info.battery,
                             pendingA |-> a.pending_state,
                             stable |-> a.should_report]
                 /\ RunStep(new_battery, b.should_report)

\* StatusSignals without the tray refresh
StatusSignals_NoTray(info, status) ==
    <<IF status THEN NotifyReconnect(info.name) ELSE NotifyDisconnect(info.name)>>

\* proxy.send_event calls of the ConnectionStatus arm followed by the
\* trailing need_update_tray check
StatusSignals(info, status) ==
    <<IF status THEN NotifyReconnect(info.name) ELSE NotifyDisconnect(info.name),
      UpdateTray>>

\* watch_ble_devices_async, rx.recv() arm, BluetoothLEUpdate::ConnectionStatus
BleRecvStatus(address, status) ==
    /\ IF address \in DOMAIN bluetooth_device_map
          /\ bluetooth_device_map[address].status # status
       THEN /\ bluetooth_device_map' =
                   [bluetooth_device_map EXCEPT ![address].status = status]
            /\ emitted' = StatusSignals(bluetooth_device_map[address], status)
       ELSE /\ emitted' = <<>>
            /\ UNCHANGED bluetooth_device_map
    /\ eval' = NoEval
    /\ UNCHANGED <<battery_states, run_value, run_commits>>

\* watch_ble_devices_async, the rx.recv() arm of the select
BleRecvArm ==
    /\ ble_rx # <<>>
    /\ ble_rx' = Tail(ble_rx)
    /\ IF Head(ble_rx).kind = "BatteryLevel"
       THEN BleRecvBattery(Head(ble_rx).address, Head(ble_rx).value)
       ELSE BleRecvStatus(Head(ble_rx).address, Head(ble_rx).value)
    /\ UNCHANGED <<restart_flag, presence_rx, now, ble_battery, ble_status>>
    /\ UNCHANGED <<removed_addresses, watchVars,
                   btcVars, notified_devices, low_battery, handled, lifeVars,
                   low_notices, resolutions, registry_changes>>

\* the arm with the event loop left out
BleRecv ==
    /\ BleRecvArm
    /\ UNCHANGED <<app_rx, scenario, phase>>

\* time passes
Tick ==
    /\ now + TickStep <= MaxTime
    /\ now' = now + TickStep
    /\ emitted' = <<>>
    /\ eval' = NoEval
    /\ UNCHANGED <<bluetooth_device_map, restart_flag, presence_rx, ble_rx,
                   battery_states, ble_battery, ble_status, run_value, run_commits>>
    /\ UNCHANGED <<removed_addresses, watchVars,
                   btcVars, appVars, lifeVars, scenario, low_notices, phase,
                   resolutions, registry_changes>>

----------------------------------------------------------------------------
(* Classic status watcher: btc.rs *)

\* watch_btc_device_status, the ConnectionStatusChanged handler: the status
\* is read from the device when the handler runs
BtcStatusCallback(a, status) ==
    /\ InFlight < MaxInFlight
    /\ btc_status' = status
    /\ btc_rx' = try_send(btc_rx, [status |-> status, address |-> a])
    /\ emitted' = <<>>
    /\ eval' = NoEval
    /\ UNCHANGED <<bluetooth_device_map, restart_flag, presence_rx, ble_rx,
                   battery_states, now, ble_battery, ble_status, run_value,
                   run_commits>>
    /\ UNCHANGED <<removed_addresses, watchVars,
                   appVars, lifeVars, scenario, low_notices, phase,
                   resolutions, registry_changes>>

\* watch_btc_devices_status_async, the rx.recv() arm of the select
BtcStatusRecv ==
    /\ btc_rx # <<>>
    /\ btc_rx' = Tail(btc_rx)
    /\ LET address == Head(btc_rx).address
           status == Head(btc_rx).status
       IN IF address \in DOMAIN bluetooth_device_map
             /\ bluetooth_device_map[address].status # status
          THEN /\ bluetooth_device_map' =
                      [bluetooth_device_map EXCEPT ![address].status = status]
               /\ emitted' = StatusSignals(bluetooth_device_map[address], status)
          ELSE /\ emitted' = <<>>
               /\ UNCHANGED bluetooth_device_map
    /\ eval' = NoEval
    /\ UNCHANGED <<restart_flag, presence_rx, ble_rx, battery_states, now,
                   ble_battery, ble_status, run_value, run_commits, btc_status>>
    /\ UNCHANGED <<removed_addresses, watchVars,
                   appVars, lifeVars, scenario, low_notices, phase,
                   resolutions, registry_changes>>

\* watch_btc_device_status, the ConnectionStatusChanged handler, as often
\* as the device changes its status, whatever the consumer has received:
\* try_send returns Full when the channel holds ChannelCapacity events, and
\* the handler discards that result
BtcStatusBurst ==
    /\ btc_status' = ~btc_status
    /\ btc_rx' = try_send(btc_rx, [status |-> ~btc_status, address |-> BtcAddress])
    /\ channel_full' = (channel_full \/ Len(btc_rx) >= ChannelCapacity)
    /\ emitted' = <<>>
    /\ eval' = NoEval
    /\ UNCHANGED <<bluetooth_device_map, restart_flag, presence_rx, ble_rx,
                   battery_states, now, ble_battery, ble_status, run_value,
                   run_commits>>
    /\ UNCHANGED <<appVars, lifeVars, scenario, low_notices, phase,
                   resolutions, registry_changes, removed_addresses,
                   update_pending, threads,
                   local_generation, subVars, pollVars, stopVars, scanVars,
                   taskVars>>

----------------------------------------------------------------------------
(* Subscriptions and generations of the BLE watcher and of the Classic     *)
(* status watcher: ble.rs, btc.rs                                          *)

\* how subscribing to one BLE device ends: get_ble_device_from_address
\* fails; watch_ble_device fails before it registers a handler (no battery
\* characteristic, or no Notify property); ValueChanged fails after
\* ConnectionStatusChanged was registered; both handlers are registered
BleOutcomes == {"watched", "unresolved", "no_notify", "value_refused"}

\* how subscribing to one Classic device ends: get_btc_device_from_address
\* fails; ConnectionStatusChanged fails; the handler is registered
BtcOutcomes == {"watched", "unresolved", "status_refused"}

\* get_ble_devices_address / get_btc_devices_address
DevicesOfType(map, type) == {a \in DOMAIN map : map[a].type = type}

\* the handlers of the devices in S
SlotsOf(S) == {slot \in TokenSlots : slot[1] \in S}

\* the handlers after the watcher subscribed to the devices in whole,
\* registered only ConnectionStatusChanged on the devices in half, and the
\* scopeguard closure called RemoveConnectionStatusChanged / RemoveValueChanged
\* for the devices in dropped
Handlers(whole, half, dropped) ==
    [slot \in TokenSlots |->
        handlers[slot]
        + (IF slot[1] \in whole \/ (slot[1] \in half /\ slot[2] = "ConnectionStatusChanged")
           THEN 1 ELSE 0)
        - (IF slot[1] \in dropped THEN 1 ELSE 0)]

\* what the subscribing watchers leave alone
SubscriberFrame ==
    /\ emitted' = <<>>
    /\ eval' = NoEval
    /\ UNCHANGED <<restart_flag, presence_rx, ble_rx, battery_states, now,
                   ble_battery, ble_status, run_value, run_commits>>
    /\ UNCHANGED <<btcVars, appVars, lifeVars, scenario, low_notices, phase,
                   resolutions, registry_changes, removed_addresses, pollVars,
                   extraVars>>

\* watch_ble_devices_async / watch_btc_devices_status_async up to the loop:
\* the devices of the registry that resolve are subscribed one after the
\* other, and the first failure returns the error: the scopeguard then
\* releases the subscriptions made before it.  o gives the outcome of each
\* device, before the devices subscribed ahead of the first failure.
Startup(w, type, o, before) ==
    LET resolved == {a \in DOMAIN o : o[a] # "unresolved"}
        watched == {a \in resolved : o[a] = "watched"}
        failing == resolved \ watched
    IN /\ threads[w] = "starting"
       /\ DOMAIN o = DevicesOfType(bluetooth_device_map, type)
       /\ IF failing = {}
          THEN /\ before = {}
               /\ threads' = [threads EXCEPT ![w] = "running"]
               /\ guard' = [guard EXCEPT ![w] = watched]
               /\ handlers' = Handlers(watched, {}, {})
          ELSE /\ before \subseteq watched
               /\ \E f \in failing :
                    handlers' = Handlers(before,
                                         IF o[f] = "value_refused" THEN {f} ELSE {},
                                         before)
               /\ threads' = [threads EXCEPT ![w] = "err"]
               /\ guard' = [guard EXCEPT ![w] = {}]
       /\ UNCHANGED <<bluetooth_device_map, local_generation>>
       /\ SubscriberFrame

\* GenerationArm polled only after rx.recv(), as under a biased select: it
\* runs only while no update waits in the channel
GenerationArm_Biased(w, type, rx, o, tried) ==
    LET current == DevicesOfType(bluetooth_device_map, type)
        removed_devices == guard[w] \ current
        added_devices == current \ guard[w]
        watched == {a \in tried : o[a] = "watched"}
        half == {a \in tried : o[a] = "value_refused"}
    IN /\ threads[w] = "running"
       /\ ~exit_flag
       /\ local_generation[w] < restart_flag
       /\ DOMAIN o = added_devices
       /\ tried = added_devices
       /\ rx = <<>>
       /\ local_generation' = [local_generation EXCEPT ![w] = restart_flag]
       /\ guard' = [guard EXCEPT ![w] = (guard[w] \ removed_devices) \cup watched]
       /\ handlers' = Handlers(watched, half, {})
       /\ bluetooth_device_map' =
              [a \in DOMAIN bluetooth_device_map \ (tried \ watched) |->
                  bluetooth_device_map[a]]
       /\ UNCHANGED threads
       /\ SubscriberFrame

\* the generation arm of the select: a newer generation makes the watcher
\* drop the devices that left the registry and subscribe to the new ones; a
\* new device that cannot be subscribed is removed from the registry.  The
\* arm is a future that the select drops when rx.recv() completes first:
\* tried are the new devices it got to (all of them unless an update was
\* waiting).
GenerationArm(w, type, rx, o, tried) ==
    LET current == DevicesOfType(bluetooth_device_map, type)
        removed_devices == guard[w] \ current
        added_devices == current \ guard[w]
        watched == {a \in tried : o[a] = "watched"}
        half == {a \in tried : o[a] = "value_refused"}
    IN /\ threads[w] = "running"
       /\ ~exit_flag
       /\ local_generation[w] < restart_flag
       /\ DOMAIN o = added_devices
       /\ tried \subseteq added_devices
       /\ tried = added_devices \/ rx # <<>>
       /\ local_generation' = [local_generation EXCEPT ![w] = restart_flag]
       /\ guard' = [guard EXCEPT ![w] = (guard[w] \ removed_devices) \cup watched]
       /\ handlers' = Handlers(watched, half, {})
       /\ bluetooth_device_map' =
              [a \in DOMAIN bluetooth_device_map \ (tried \ watched) |->
                  bluetooth_device_map[a]]
       /\ UNCHANGED threads
       /\ SubscriberFrame

\* the exit flag ends the generation arm and the watcher returns Ok: the
\* scopeguard releases what the map holds
SubscriberExit(w) ==
    /\ threads[w] = "running"
    /\ exit_flag
    /\ threads' = [threads EXCEPT ![w] = "ok"]
    /\ handlers' = Handlers({}, {}, guard[w])
    /\ guard' = [guard EXCEPT ![w] = {}]
    /\ UNCHANGED <<bluetooth_device_map, local_generation>>
    /\ SubscriberFrame

BleStartup ==
    \E o \in UNION {[S -> BleOutcomes] : S \in SUBSET BleDevices},
       before \in SUBSET BleDevices :
        Startup(BleWatcher, "LowEnergy", o, before)

BleGenerationArm ==
    \E o \in UNION {[S -> BleOutcomes] : S \in SUBSET BleDevices},
       tried \in SUBSET BleDevices :
        GenerationArm(BleWatcher, "LowEnergy", ble_rx, o, tried)

BleExit == SubscriberExit(BleWatcher)

BtcStatusStartup ==
    \E o \in UNION {[S -> BtcOutcomes] : S \in SUBSET {BtcAddress}},
       before \in SUBSET {BtcAddress} :
        Startup(BtcStatusWatcher, "Classic", o, before)

BtcStatusGenerationArm ==
    \E o \in UNION {[S -> BtcOutcomes] : S \in SUBSET {BtcAddress}},
       tried \in SUBSET {BtcAddress} :
        GenerationArm(BtcStatusWatcher, "Classic", btc_rx, o, tried)

BtcStatusExit == SubscriberExit(BtcStatusWatcher)

----------------------------------------------------------------------------
(* Classic battery poller: watch.rs watch_btc_devices_battery *)

\* battery bytes a notification or a Plug-and-Play property may carry: the
\* ends of the u8 range and of the percentage range
Bytes == {0, 100, 101, 255}

\* what the poller leaves alone
PollerFrame ==
    /\ eval' = NoEval
    /\ UNCHANGED <<restart_flag, presence_rx, ble_rx, battery_states, now,
                   ble_battery, ble_status, run_value, run_commits>>
    /\ UNCHANGED <<btcVars, appVars, lifeVars, scenario, low_notices, phase,
                   resolutions, registry_changes, removed_addresses, subVars,
                   extraVars>>

\* the sleep loop ends (30 seconds, or a newer generation), the registry is
\* cloned and the Plug-and-Play devices of its Classic entries are read:
\* pnp gives the battery of each device the enumeration returned
PollerScan(pnp) ==
    /\ threads[BtcBatteryWatcher] = "running"
    /\ poller_pc = "sleep"
    /\ ~exit_flag
    /\ DOMAIN pnp \subseteq DevicesOfType(bluetooth_device_map, "Classic")
    /\ local_generation' =
          [local_generation EXCEPT
              ![BtcBatteryWatcher] = IF @ < restart_flag THEN restart_flag ELSE @]
    /\ original_btc_devices' = bluetooth_device_map
    /\ pnp_devices_info' = pnp
    /\ poller_pc' = "scanned"
    /\ emitted' = <<>>
    /\ UNCHANGED <<bluetooth_device_map, threads>>
    /\ PollerFrame

\* get_pnp_devices_from_devices_instance_id or get_pnp_devices_info fails and
\* the ? returns the error
PollerScanFails ==
    /\ threads[BtcBatteryWatcher] = "running"
    /\ poller_pc = "sleep"
    /\ ~exit_flag
    /\ local_generation' =
          [local_generation EXCEPT
              ![BtcBatteryWatcher] = IF @ < restart_flag THEN restart_flag ELSE @]
    /\ threads' = [threads EXCEPT ![BtcBatteryWatcher] = "err"]
    /\ emitted' = <<>>
    /\ UNCHANGED <<bluetooth_device_map, pollVars>>
    /\ PollerFrame

\* the registry after the loop over the clone: insert(btc_address,
\* BluetoothInfo { battery: pnp_battery, ..btc_device }) for every device
\* whose Plug-and-Play battery differs from the cloned one
PollerWrites(map, original, pnp) ==
    LET changed == {a \in DOMAIN pnp \cap DOMAIN original :
                        pnp[a] # original[a].battery}
    IN [a \in DOMAIN map \cup changed |->
           IF a \in changed
           THEN BluetoothInfo(original[a].name, pnp[a], original[a].status,
                              original[a].address, original[a].type)
           ELSE map[a]]

\* the proxy.send_event calls of the loop and of the need_update check (the
\* model has one Classic device)
PollerSignals(original, pnp) ==
    IF BtcAddress \in DOMAIN pnp /\ BtcAddress \in DOMAIN original
       /\ pnp[BtcAddress] # original[BtcAddress].battery
    THEN <<NotifyLowBattery(original[BtcAddress].name, pnp[BtcAddress], BtcAddress),
           UpdateTray>>
    ELSE <<>>

\* the head of an iteration of the loop over the clone: a newer generation
\* breaks out of the loop (an empty clone ends it as well), otherwise the
\* device of the iteration is compared next
PollerCheck ==
    /\ threads[BtcBatteryWatcher] = "running"
    /\ poller_pc = "scanned"
    /\ IF original_btc_devices = EmptyMap
       THEN /\ poller_pc' = "sleep"
            /\ UNCHANGED <<local_generation, original_btc_devices, pnp_devices_info>>
       ELSE IF local_generation[BtcBatteryWatcher] < restart_flag
       THEN /\ local_generation' =
                  [local_generation EXCEPT ![BtcBatteryWatcher] = restart_flag]
            /\ poller_pc' = "sleep"
            /\ original_btc_devices' = EmptyMap
            /\ pnp_devices_info' = EmptyMap
       ELSE /\ poller_pc' = "checked"
            /\ UNCHANGED <<local_generation, original_btc_devices, pnp_devices_info>>
    /\ emitted' = <<>>
    /\ UNCHANGED <<bluetooth_device_map, threads>>
    /\ PollerFrame

\* the rest of the iteration and the need_update check: the device is
\* written when its battery changed, and the events are sent
PollerCommit ==
    /\ threads[BtcBatteryWatcher] = "running"
    /\ poller_pc = "checked"
    /\ bluetooth_device_map' =
          PollerWrites(bluetooth_device_map, original_btc_devices, pnp_devices_info)
    /\ emitted' = PollerSignals(original_btc_devices, pnp_devices_info)
    /\ poller_pc' = "sleep"
    /\ original_btc_devices' = EmptyMap
    /\ pnp_devices_info' = EmptyMap
    /\ UNCHANGED <<local_generation, threads>>
    /\ PollerFrame

\* the exit flag is seen in the sleep loop or at the head of the outer loop
PollerExit ==
    /\ threads[BtcBatteryWatcher] = "running"
    /\ poller_pc = "sleep"
    /\ exit_flag
    /\ threads' = [threads EXCEPT ![BtcBatteryWatcher] = "ok"]
    /\ emitted' = <<>>
    /\ UNCHANGED <<bluetooth_device_map, local_generation, pollVars>>
    /\ PollerFrame

----------------------------------------------------------------------------
(* Watcher::stop after its two stores: watch.rs *)

\* the handles in the order watch_loop returns them, with the thread each
\* one belongs to
WatchHandles ==
    <<"Watch BLE Handle", "Watch BTC Battery Handle", "Watch BTC Status Handle",
      "Watch Bluetooth presence Handle">>

\* what handle i's thread has returned, "running" or "starting" before that
HandleState(i) ==
    CASE i = 1 -> threads[BleWatcher]
      [] i = 2 -> threads[BtcBatteryWatcher]
      [] i = 3 -> threads[BtcStatusWatcher]
      [] OTHER -> IF presence_thread = "done" THEN "ok" ELSE presence_thread

StopFrame ==
    /\ emitted' = <<>>
    /\ eval' = NoEval
    /\ UNCHANGED <<bluetooth_device_map, restart_flag, presence_rx, ble_rx,
                   battery_states, now, ble_battery, ble_status, run_value,
                   run_commits>>
    /\ UNCHANGED <<btcVars, appVars, lifeVars, scenario, low_notices, phase,
                   resolutions, registry_changes, removed_addresses,
                   update_pending, threads,
                   local_generation, subVars, pollVars, scanVars, taskVars,
                   channel_full>>

\* WatcherJoin taking the next handle without waiting for its thread
WatcherJoin_Detached ==
    /\ exit_flag
    /\ joined < Len(WatchHandles)
    /\ joined' = joined + 1
    /\ stop_notices' =
          IF HandleState(joined + 1) = "err"
          THEN Append(stop_notices, WatchHandles[joined + 1])
          ELSE stop_notices
    /\ StopFrame

\* one round of the iterator chain of Watcher::stop: handle.join() returns
\* once the thread has returned, and an Err result is passed to notify
WatcherJoin ==
    /\ exit_flag
    /\ joined < Len(WatchHandles)
    /\ HandleState(joined + 1) \in {"ok", "err"}
    /\ joined' = joined + 1
    /\ stop_notices' =
          IF HandleState(joined + 1) = "err"
          THEN Append(stop_notices, WatchHandles[joined + 1])
          ELSE stop_notices
    /\ StopFrame

----------------------------------------------------------------------------
(* The battery task of the Classic devices: btc.rs watch_btc_devices_battery *)

\* the filter of get_connect_btc_devices_info
ConnectedClassic(map) ==
    {a \in DOMAIN map : map[a].status /\ map[a].type = "Classic"}

\* no RefMulti of the snapshot keeps the shard of address a read-locked
\* (every address is taken to lie in a shard of its own)
ShardFree(a) == a \notin btc_snapshot

BatteryTaskFrame ==
    /\ eval' = NoEval
    /\ UNCHANGED <<restart_flag, presence_rx, ble_rx, battery_states, now,
                   ble_battery, ble_status, run_value, run_commits>>
    /\ UNCHANGED <<btcVars, appVars, lifeVars, scenario, low_notices, phase,
                   resolutions, registry_changes, removed_addresses,
                   update_pending, threads,
                   local_generation, subVars, pollVars, stopVars, scanVars,
                   pnp_battery, channel_full>>

\* the statements before the loop: the first snapshot, a Vec of the RefMulti
\* the iterator yields, each of which keeps its shard read-locked
BatteryTaskStart ==
    /\ task_pc = "start"
    /\ task_pc' = "loop"
    /\ btc_snapshot' = ConnectedClassic(bluetooth_device_map)
    /\ emitted' = <<>>
    /\ UNCHANGED <<bluetooth_device_map, task_generation, task_writes>>
    /\ BatteryTaskFrame

\* the head of the loop with a newer generation: a new snapshot replaces
\* the old one, and the loop continues
BatteryTaskRestart ==
    /\ task_pc = "loop"
    /\ ~exit_flag
    /\ task_generation < restart_flag
    /\ task_generation' = restart_flag
    /\ btc_snapshot' = ConnectedClassic(bluetooth_device_map)
    /\ emitted' = <<>>
    /\ UNCHANGED <<bluetooth_device_map, task_pc, task_writes>>
    /\ BatteryTaskFrame

\* the stream over the snapshot: the battery of each entry is read from its
\* Plug-and-Play device (readable: the read returns Some) and kept when it
\* differs from the entry's battery; with nothing to write the task sleeps
\* 6 seconds and is back at the head of the loop
BatteryTaskPoll(readable) ==
    /\ task_pc = "loop"
    /\ ~exit_flag
    /\ ~(task_generation < restart_flag)
    /\ task_writes' =
          {<<a, pnp_battery>> : a \in
              {x \in btc_snapshot :
                  readable /\ pnp_battery # bluetooth_device_map[x].battery}}
    /\ task_pc' = IF task_writes' = {} THEN "loop" ELSE "write"
    /\ emitted' = <<>>
    /\ UNCHANGED <<bluetooth_device_map, task_generation, btc_snapshot>>
    /\ BatteryTaskFrame

\* one round of the loop over btc_devices: get_mut waits for the write lock
\* of the shard, for ever when the task itself holds a read guard on it;
\* otherwise the battery is written and LowBattery sent, and after the last
\* round UpdateTray
BatteryTaskGetMut ==
    /\ task_pc = "write"
    /\ \E w \in task_writes :
         IF ~ShardFree(w[1])
         THEN /\ task_pc' = "blocked"
              /\ emitted' = <<>>
              /\ UNCHANGED <<bluetooth_device_map, task_writes>>
         ELSE /\ task_writes' = task_writes \ {w}
              /\ task_pc' = IF task_writes' = {} THEN "loop" ELSE "write"
              /\ IF w[1] \in DOMAIN bluetooth_device_map
                 THEN /\ bluetooth_device_map' =
                            [bluetooth_device_map EXCEPT ![w[1]].battery = w[2]]
                      /\ emitted' =
                            <<NotifyLowBattery(bluetooth_device_map[w[1]].name,
                                               w[2], w[1])>>
                            \o (IF task_writes' = {} THEN <<UpdateTray>> ELSE <<>>)
                 ELSE /\ emitted' = <<>>
                      /\ UNCHANGED bluetooth_device_map
    /\ UNCHANGED <<task_generation, btc_snapshot>>
    /\ BatteryTaskFrame

\* the while condition with the exit flag set: the snapshot is dropped
BatteryTaskExit ==
    /\ task_pc = "loop"
    /\ exit_flag
    /\ task_pc' = "done"
    /\ btc_snapshot' = {}
    /\ emitted' = <<>>
    /\ UNCHANGED <<bluetooth_device_map, task_generation, task_writes>>
    /\ BatteryTaskFrame

\* the battery property of the Plug-and-Play device changes
PnpBatteryChanges ==
    /\ \E b \in BatteryLevels \ {pnp_battery} : pnp_battery' = b
    /\ emitted' = <<>>
    /\ eval' = NoEval
    /\ UNCHANGED <<bluetooth_device_map, restart_flag, presence_rx, ble_rx,
                   battery_states, now, ble_battery, ble_status, run_value,
                   run_commits>>
    /\ UNCHANGED <<btcVars, appVars, lifeVars, scenario, low_notices, phase,
                   resolutions, registry_changes, removed_addresses,
                   update_pending, threads,
                   local_generation, subVars, pollVars, stopVars, scanVars,
                   task_pc, task_generation, btc_snapshot, task_writes, channel_full>>

\* the rx.recv() arm of the Classic status watcher on the DashMap registry:
\* its get_mut waits while the shard of the address is read-locked
BtcStatusRecvSharded ==
    /\ btc_rx # <<>>
    /\ ShardFree(Head(btc_rx).address)
    /\ BtcStatusRecv

----------------------------------------------------------------------------
(* The first scan of the Classic devices: btc.rs get_btc_devices_info *)

\* btc.rs:80  let max_retries = 2
max_retries == 2

\* a device property that is missing or of another type than expected
NoProperty == NoReading

\* a PnpDeviceNodeInfo as <<has properties, battery property, address
\* property>>
PnpNodes ==
    {<<FALSE, NoProperty, NoProperty>>}
        \cup {<<TRUE, b, a>> : b \in {NoProperty, 50}, a \in {NoProperty, BtcAddress}}

\* what one call of get_pnp_devices returns: an error, or a list of nodes
PnpOutcomes ==
    {<<"Err">>} \cup {<<"Ok", <<>>>>} \cup {<<"Ok", <<n>>>> : n \in PnpNodes}

\* get_pnp_devices_info: the nodes lacking properties, a Byte battery or a
\* parsable address are skipped; the result is always Ok
RECURSIVE get_pnp_devices_info(_)
get_pnp_devices_info(nodes) ==
    IF nodes = <<>>
    THEN <<"Ok", EmptyMap>>
    ELSE LET node == nodes[Len(nodes)]
             rest == get_pnp_devices_info(SubSeq(nodes, 1, Len(nodes) - 1))
         IN  IF node[1] /\ node[2] # NoProperty /\ node[3] # NoProperty
             THEN <<"Ok", MapInsert(rest[2], node[3], node[2])>>
             ELSE rest

\* the retry loop of get_btc_devices_info on the outcomes calls of
\* get_pnp_devices, as <<result, pnp_devices_info, enumerations, sleeps>>
RECURSIVE RetryLoop(_, _, _, _)
RetryLoop(calls, attempts, enumerations, sleeps) ==
    LET pnp_devices == Head(calls)
    IN  IF pnp_devices[1] = "Err"
        THEN <<"Err", EmptyMap, enumerations + 1, sleeps>>
        ELSE LET info == get_pnp_devices_info(pnp_devices[2])
             IN  IF info[1] = "Ok"
                 THEN <<"Ok", info[2], enumerations + 1, sleeps>>
                 ELSE IF attempts + 1 >= max_retries
                      THEN <<"Err", EmptyMap, enumerations + 1, sleeps>>
                      ELSE RetryLoop(Tail(calls), attempts + 1,
                                     enumerations + 1, sleeps + 1)

\* process_btc_device for every device: a device without a Plug-and-Play
\* entry is left out with a warning
process_btc_devices(devices, pnp) ==
    [a \in DOMAIN devices \cap DOMAIN pnp |->
        BluetoothInfo(NameOf(a), pnp[a], devices[a], a, "Classic")]

\* one call of get_btc_devices_info
GetBtcDevicesInfo ==
    /\ scan_result = "none"
    /\ LET r == RetryLoop(pnp_calls, 0, 0, 0)
       IN  /\ scan_result' = r[1]
           /\ scan_enumerations' = r[3]
           /\ scan_sleeps' = r[4]
           /\ devices_info' =
                 IF r[1] = "Ok" THEN process_btc_devices(btc_devices, r[2])
                 ELSE EmptyMap
    /\ emitted' = <<>>
    /\ eval' = NoEval
    /\ UNCHANGED <<bluetooth_device_map, restart_flag, presence_rx, ble_rx,
                   battery_states, now, ble_battery, ble_status, run_value,
                   run_commits>>
    /\ UNCHANGED <<btcVars, appVars, lifeVars, scenario, low_notices, phase,
                   resolutions, registry_changes, removed_addresses,
                   update_pending, threads,
                   local_generation, subVars, pollVars, stopVars, taskVars,
                   channel_full, pnp_calls, btc_devices>>

----------------------------------------------------------------------------
(* The event loop and the notifier: main.rs, notify.rs *)

\* thresholds and battery bytes around the two comparisons and at the ends
\* of the u8 range
Thresholds == {0, 15, 250, 255}
BatteryBytes == {0, 1, 14, 15, 16, 25, 26, 250, 255}

\* Toast shown by notify()
Toast(name, battery) == [name |-> name, battery |-> battery]

\* config.get_added() and the like, as NotifyOptions::default sets them
OptionEnabled(event) == FALSE

\* send with the difference computed in u8, wrapping
send_WrappingDiff(e, threshold, notified) ==
    IF e.event = "LowBattery"
    THEN LET diff == (e.battery - threshold) % 256 IN
         IF diff <= 0
         THEN [notified_devices |-> notified \cup {e.address},
               toasts |-> IF e.address \notin notified
                          THEN <<Toast(e.name, e.battery)>> ELSE <<>>]
         ELSE IF diff > HYSTERESIS
              THEN [notified_devices |-> notified \ {e.address}, toasts |-> <<>>]
              ELSE [notified_devices |-> notified, toasts |-> <<>>]
    ELSE [notified_devices |-> notified,
          toasts |-> IF OptionEnabled(e.event) THEN <<Toast(e.name, 0)>> ELSE <<>>]

\* send with the low region tested by diff < 0
send_StrictBelow(e, threshold, notified) ==
    IF e.event = "LowBattery"
    THEN LET diff == e.battery - threshold IN
         IF diff < 0
         THEN [notified_devices |-> notified \cup {e.address},
               toasts |-> IF e.address \notin notified
                          THEN <<Toast(e.name, e.battery)>> ELSE <<>>]
         ELSE IF diff > HYSTERESIS
              THEN [notified_devices |-> notified \ {e.address}, toasts |-> <<>>]
              ELSE [notified_devices |-> notified, toasts |-> <<>>]
    ELSE [notified_devices |-> notified,
          toasts |-> IF OptionEnabled(e.event) THEN <<Toast(e.name, 0)>> ELSE <<>>]

\* send notifying whatever HashSet::insert returned
send_NoInsertCheck(e, threshold, notified) ==
    IF e.event = "LowBattery"
    THEN LET diff == e.battery - threshold IN
         IF diff <= 0
         THEN [notified_devices |-> notified \cup {e.address},
               toasts |-> <<Toast(e.name, e.battery)>>]
         ELSE IF diff > HYSTERESIS
              THEN [notified_devices |-> notified \ {e.address}, toasts |-> <<>>]
              ELSE [notified_devices |-> notified, toasts |-> <<>>]
    ELSE [notified_devices |-> notified,
          toasts |-> IF OptionEnabled(e.event) THEN <<Toast(e.name, 0)>> ELSE <<>>]

\* NotifyEvent::send: the notified set and the toasts after event e; the
\* difference is computed in i32
send(e, threshold, notified) ==
    IF e.event = "LowBattery"
    THEN LET diff == e.battery - threshold IN
         IF diff <= 0
         THEN [notified_devices |-> notified \cup {e.address},
               toasts |-> IF e.address \notin notified
                          THEN <<Toast(e.name, e.battery)>> ELSE <<>>]
         ELSE IF diff > HYSTERESIS
              THEN [notified_devices |-> notified \ {e.address}, toasts |-> <<>>]
              ELSE [notified_devices |-> notified, toasts |-> <<>>]
    ELSE [notified_devices |-> notified,
          toasts |-> IF OptionEnabled(e.event) THEN <<Toast(e.name, 0)>> ELSE <<>>]

\* the low-battery toasts of each address since the last event that cleared
\* its flag
LowNoticesAfter(e, out) ==
    IF e.event # "LowBattery" THEN low_notices
    ELSE [low_notices EXCEPT ![e.address] =
            IF e.battery - low_battery > HYSTERESIS THEN 0 ELSE @ + Len(out.toasts)]

\* the scenario of the BLE device: notified, then disconnected, then
\* reconnected, then cleared
PhaseAfterSend(e, out) ==
    IF e.event # "LowBattery" \/ e.address # BleAddress THEN phase
    ELSE IF out.toasts # <<>> THEN "notified"
    ELSE IF BleAddress \in notified_devices /\ BleAddress \notin out.notified_devices
         THEN IF phase = "reconnected" THEN "cleared" ELSE "none"
    ELSE phase

\* App::user_event: UserEvent::Notify goes to NotifyEvent::send, UpdateTray
\* rebuilds the tray menu
AppUserEvent ==
    /\ app_rx # <<>>
    /\ LET e == Head(app_rx)
           out == IF e.event = "UpdateTray"
                  THEN [notified_devices |-> notified_devices, toasts |-> <<>>]
                  ELSE send(e, low_battery, notified_devices)
       IN /\ app_rx' = Tail(app_rx)
          /\ notified_devices' = out.notified_devices
          /\ handled' = [event |-> e.event, toasts |-> out.toasts,
                         notify |-> e,
                         notified_before |-> notified_devices]
          /\ low_notices' = LowNoticesAfter(e, out)
          /\ phase' = PhaseAfterSend(e, out)
    /\ emitted' = <<>>
    /\ eval' = NoEval
    /\ UNCHANGED <<bluetooth_device_map, restart_flag, presence_rx, ble_rx,
                   battery_states, now, ble_battery, ble_status, run_value,
                   run_commits>>
    /\ UNCHANGED <<removed_addresses, watchVars,
                   btcVars, low_battery, lifeVars, scenario, resolutions,
                   registry_changes>>

\* EventLoopProxy::send_event of one event by a watcher
ProxySendEvent(e) ==
    /\ Len(app_rx) < MaxInFlight
    /\ app_rx' = Append(app_rx, e)
    /\ emitted' = <<e>>
    /\ eval' = NoEval
    /\ UNCHANGED <<bluetooth_device_map, restart_flag, presence_rx, ble_rx,
                   battery_states, now, ble_battery, ble_status, run_value,
                   run_commits>>
    /\ UNCHANGED <<removed_addresses, watchVars,
                   btcVars, notified_devices, low_battery, handled, lifeVars,
                   scenario, low_notices, phase, resolutions, registry_changes>>

----------------------------------------------------------------------------
(* Specification of the BLE watcher with one BLE device that the presence  *)
(* watcher may remove and add again                                        *)

InitBle ==
    /\ \E b \in BatteryLevels, s \in BOOLEAN :
         /\ bluetooth_device_map =
                ScannedRegistry({BleAddress}, [a \in Address |-> b], [a \in Address |-> s])
         /\ ble_battery = b
         /\ ble_status = s
    /\ restart_flag = 0
    /\ presence_rx = <<>>
    /\ ble_rx = <<>>
    /\ battery_states = EmptyMap
    /\ now = 0
    /\ emitted = <<>>
    /\ eval = NoEval
    /\ run_value = NoReading
    /\ run_commits = 0
    /\ InitBtc
    /\ InitApp(LOW_BATTERY_DEFAULT)
    /\ InitLife
    /\ InitObservers
    /\ InitWatch

\* the device notifies a battery value different from its last one
BleBatteryChanged ==
    \E v \in BatteryLevels \ {ble_battery} : BleBatteryCallback(BleAddress, v)

\* the device notifies the battery value it notified last
BleBatteryRepeated == BleBatteryCallback(BleAddress, ble_battery)

BleStatusChanged == BleStatusCallback(BleAddress, ~ble_status)

\* process_ble_device reads name, battery and status from the device
BlePresenceAdded ==
    \E resolved \in BOOLEAN :
        PresenceAddedCallback(BleAddress, resolved, ble_battery, ble_status)

BlePresenceRemoved == PresenceRemovedCallback(BleAddress, TypeOf(BleAddress))

NextBle ==
    \/ Tick
    \/ BleBatteryChanged
    \/ BleBatteryRepeated
    \/ BleStatusChanged
    \/ BleRecv
    \/ BlePresenceAdded
    \/ BlePresenceRemoved
    \/ PresenceRecv

SpecBle == InitBle /\ [][NextBle]_vars

\* the device notifies only when its battery value changes, and the set of
\* devices stays as it is
NextOnChange ==
    \/ Tick
    \/ BleBatteryChanged
    \/ BleStatusChanged
    \/ BleRecv

\* the consumer loop is scheduled whenever its channel holds an event, and
\* time passes
FairSpecOnChange ==
    /\ InitBle
    /\ [][NextOnChange]_vars
    /\ WF_vars(BleRecv)
    /\ WF_vars(Tick)

----------------------------------------------------------------------------
(* Specification of the BLE watcher receiving the readings 42, 41, 42, 42, *)
(* 42 of one device, one tick apart                                        *)

Pattern == <<42, 41, 42, 42, 42>>

\* the time between two readings of the pattern
ReadingSpacing == TickStep

NoScenario == [n |-> 0, at |-> 0, commits |-> 0]

\* the reading received next extends the pattern matched so far
ScenarioContinues(reading) ==
    /\ scenario.n \in 1..(Len(Pattern) - 1)
    /\ reading = Pattern[scenario.n + 1]
    /\ now = scenario.at + ReadingSpacing

\* the reading received next is the first of the pattern: the address has
\* debounce state whose last commit, of a value outside the pattern, was
\* made less than one spacing ago
ScenarioStarts(address, reading) ==
    /\ reading = Pattern[1]
    /\ address \in DOMAIN bluetooth_device_map
    /\ address \in DOMAIN battery_states
    /\ \A i \in DOMAIN Pattern : battery_states[address].last_value # Pattern[i]
    /\ now - battery_states[address].last_update < ReadingSpacing

\* the rx.recv() arm, with the progress of the pattern recorded
ScenarioRecv ==
    /\ BleRecvArm
    /\ LET m == Head(ble_rx)
           committed == IF eval'.kind = "commit" THEN 1 ELSE 0
       IN scenario' =
            IF m.kind # "BatteryLevel" THEN scenario
            ELSE IF ScenarioContinues(m.value)
                 THEN [n |-> scenario.n + 1, at |-> now,
                       commits |-> scenario.commits + committed]
                 ELSE IF ScenarioStarts(m.address, m.value)
                      THEN [n |-> 1, at |-> now, commits |-> committed]
                      ELSE NoScenario
    /\ UNCHANGED <<app_rx, phase>>

NextScenario ==
    \/ Tick
    \/ BleBatteryChanged
    \/ BleBatteryRepeated
    \/ BleStatusChanged
    \/ ScenarioRecv

SpecScenario == InitBle /\ [][NextScenario]_vars

----------------------------------------------------------------------------
(* Specification of the two watchers of the connection status, with one    *)
(* BLE and one Classic device in the registry                              *)

InitStatus ==
    /\ \E b \in BatteryLevels, s \in [Address -> BOOLEAN] :
         /\ bluetooth_device_map =
                ScannedRegistry(Address, [a \in Address |-> b], s)
         /\ ble_battery = b
         /\ ble_status = s[BleAddress]
         /\ btc_status = s[BtcAddress]
    /\ restart_flag = 0
    /\ presence_rx = <<>>
    /\ ble_rx = <<>>
    /\ btc_rx = <<>>
    /\ battery_states = EmptyMap
    /\ now = 0
    /\ emitted = <<>>
    /\ eval = NoEval
    /\ run_value = NoReading
    /\ run_commits = 0
    /\ InitApp(LOW_BATTERY_DEFAULT)
    /\ InitLife
    /\ InitObservers
    /\ InitWatch

\* the handler runs after the status changed twice and reads the status it
\* read last
BleStatusRepeated == BleStatusCallback(BleAddress, ble_status)

BtcStatusChanged == BtcStatusCallback(BtcAddress, ~btc_status)

BtcStatusRepeated == BtcStatusCallback(BtcAddress, btc_status)

NextStatus ==
    \/ Tick
    \/ BleBatteryChanged
    \/ BleStatusChanged
    \/ BleStatusRepeated
    \/ BtcStatusChanged
    \/ BtcStatusRepeated
    \/ BleRecv
    \/ BtcStatusRecv

SpecStatus == InitStatus /\ [][NextStatus]_vars

----------------------------------------------------------------------------
(* Specification of the notifier handling the LowBattery events of two     *)
(* devices under a threshold that stays as configured                      *)

InitNotify ==
    /\ bluetooth_device_map =
           ScannedRegistry(Address, [a \in Address |-> 50], [a \in Address |-> TRUE])
    /\ restart_flag = 0
    /\ presence_rx = <<>>
    /\ ble_rx = <<>>
    /\ battery_states = EmptyMap
    /\ now = 0
    /\ ble_battery = 50
    /\ ble_status = TRUE
    /\ emitted = <<>>
    /\ eval = NoEval
    /\ run_value = NoReading
    /\ run_commits = 0
    /\ InitBtc
    /\ \E threshold \in Thresholds : InitApp(threshold)
    /\ InitLife
    /\ InitObservers
    /\ InitWatch

\* a watcher reports a committed battery value
SendLowBattery ==
    \E a \in Address, battery \in BatteryBytes :
        ProxySendEvent(NotifyLowBattery(NameOf(a), battery, a))

SendUpdateTray == ProxySendEvent(UpdateTray)

NextNotify == SendLowBattery \/ SendUpdateTray \/ AppUserEvent

SpecNotify == InitNotify /\ [][NextNotify]_vars

----------------------------------------------------------------------------
(* Specification of the BLE watcher and the notifier together: one BLE     *)
(* device whose battery moves between a value below the threshold and a    *)
(* value above the hysteresis band, and which notifies only on a change    *)

LowBatteryValue == LOW_BATTERY_DEFAULT - 5
RisenBatteryValue == LOW_BATTERY_DEFAULT + 15
ReconnectLevels == {LowBatteryValue, RisenBatteryValue}

InitReconnect ==
    /\ \E b \in ReconnectLevels, st \in BOOLEAN :
         /\ bluetooth_device_map =
                ScannedRegistry({BleAddress}, [a \in Address |-> b], [a \in Address |-> st])
         /\ ble_battery = b
         /\ ble_status = st
    /\ restart_flag = 0
    /\ presence_rx = <<>>
    /\ ble_rx = <<>>
    /\ battery_states = EmptyMap
    /\ now = 0
    /\ emitted = <<>>
    /\ eval = NoEval
    /\ run_value = NoReading
    /\ run_commits = 0
    /\ InitBtc
    /\ InitApp(LOW_BATTERY_DEFAULT)
    /\ InitLife
    /\ InitObservers
    /\ InitWatch

ReconnectBatteryChanged ==
    \E v \in ReconnectLevels \ {ble_battery} : BleBatteryCallback(BleAddress, v)

\* the scenario after the BLE watcher has handled message m
PhaseAfterRecv(m) ==
    IF /\ m.kind = "ConnectionStatus"
       /\ m.address \in DOMAIN bluetooth_device_map
       /\ bluetooth_device_map[m.address].status # m.value
    THEN IF phase = "notified" /\ ~m.value THEN "disconnected"
         ELSE IF phase = "disconnected" /\ m.value THEN "reconnected"
         ELSE phase
    ELSE phase

\* the rx.recv() arm, its proxy.send_event calls reaching the event loop
BleRecvSend ==
    /\ BleRecvArm
    /\ Len(app_rx) + Len(emitted') <= MaxQueued
    /\ app_rx' = app_rx \o emitted'
    /\ phase' = PhaseAfterRecv(Head(ble_rx))
    /\ UNCHANGED scenario

NextReconnect ==
    \/ Tick
    \/ ReconnectBatteryChanged
    \/ BleStatusChanged
    \/ BleRecvSend
    \/ AppUserEvent

\* the consumer loop and the event loop are scheduled whenever they have an
\* event to handle, and time passes
FairSpecReconnect ==
    /\ InitReconnect
    /\ [][NextReconnect]_vars
    /\ WF_vars(BleRecvSend)
    /\ WF_vars(AppUserEvent)
    /\ WF_vars(Tick)

----------------------------------------------------------------------------
(* Specification of the presence watcher alone *)

InitPresence ==
    /\ \E S \in SUBSET Address :
         \E b \in [Address -> BatteryLevels] :
           \E s \in [Address -> BOOLEAN] :
             bluetooth_device_map = ScannedRegistry(S, b, s)
    /\ restart_flag = 0
    /\ presence_rx = <<>>
    /\ ble_rx = <<>>
    /\ battery_states = EmptyMap
    /\ now = 0
    /\ ble_battery = 50
    /\ ble_status = TRUE
    /\ emitted = <<>>
    /\ eval = NoEval
    /\ run_value = NoReading
    /\ run_commits = 0
    /\ InitBtc
    /\ InitApp(LOW_BATTERY_DEFAULT)
    /\ InitLife
    /\ InitObservers
    /\ InitWatch

PresenceAdded ==
    \E a \in Address, resolved \in BOOLEAN, battery \in BatteryLevels, status \in BOOLEAN :
        PresenceAddedCallback(a, resolved, battery, status)

PresenceRemoved ==
    \E a \in Address, type \in BluetoothType : PresenceRemovedCallback(a, type)

NextPresence == PresenceAdded \/ PresenceRemoved \/ PresenceRecv

SpecPresence == InitPresence /\ [][NextPresence]_vars

----------------------------------------------------------------------------
(* Specification of the presence watcher receiving at most one Added event *)
(* for each address that the startup scan did not find                     *)

InitResolution ==
    /\ \E S \in SUBSET Address :
         \E b \in [Address -> BatteryLevels] :
           \E s \in [Address -> BOOLEAN] :
             /\ bluetooth_device_map = ScannedRegistry(S, b, s)
             /\ resolutions = [a \in Address |-> IF a \in S THEN "scanned" ELSE "none"]
    /\ restart_flag = 0
    /\ presence_rx = <<>>
    /\ ble_rx = <<>>
    /\ battery_states = EmptyMap
    /\ now = 0
    /\ ble_battery = 50
    /\ ble_status = TRUE
    /\ emitted = <<>>
    /\ eval = NoEval
    /\ run_value = NoReading
    /\ run_commits = 0
    /\ InitBtc
    /\ InitApp(LOW_BATTERY_DEFAULT)
    /\ InitLife
    /\ scenario = NoScenario
    /\ low_notices = [a \in Address |-> 0]
    /\ phase = "none"
    /\ registry_changes = 0
    /\ removed_addresses = {}
    /\ InitWatch

\* the Added callback of a new address, its outcome recorded
NewAddressAdded ==
    \E a \in Address, resolved \in BOOLEAN, battery \in BatteryLevels, status \in BOOLEAN :
        /\ resolutions[a] = "none"
        /\ PresenceAddedSend(a, resolved, battery, status)
        /\ resolutions' = [resolutions EXCEPT ![a] = IF resolved THEN "resolved" ELSE "failed"]

NextResolution == NewAddressAdded \/ PresenceRecv

SpecResolution == InitResolution /\ [][NextResolution]_vars

----------------------------------------------------------------------------
(* Specification of the presence watcher from Watcher::start to the end of *)
(* its thread after Watcher::stop                                          *)

WatchedAdded ==
    /\ presence_thread = "running"
    /\ PresenceAdded

WatchedRemoved ==
    /\ presence_thread = "running"
    /\ PresenceRemoved

NextWatcher ==
    \/ WatchedAdded
    \/ WatchedRemoved
    \/ PresenceRecvJoined
    \/ WatcherStop
    \/ PresenceExit

SpecWatcher == InitPresence /\ [][NextWatcher]_vars

----------------------------------------------------------------------------
(* Specification of the four watcher threads from Watcher::start to their  *)
(* end after Watcher::stop, with one BLE and one Classic device            *)

\* the watchers after they subscribed to the devices of the startup scan
InitStarted ==
    /\ InitExtra
    /\ threads = [w \in Watchers |-> "running"]
    /\ local_generation = [w \in Watchers |-> 0]
    /\ guard = [w \in Subscribers |->
                   DevicesOfType(bluetooth_device_map,
                                 IF w = BleWatcher THEN "LowEnergy" ELSE "Classic")]
    /\ handlers = [slot \in TokenSlots |->
                      IF slot[1] \in DOMAIN bluetooth_device_map THEN 1 ELSE 0]
    /\ poller_pc = "sleep"
    /\ original_btc_devices = EmptyMap
    /\ pnp_devices_info = EmptyMap

InitGeneration ==
    /\ bluetooth_device_map =
           ScannedRegistry(Address, [a \in Address |-> 50], [a \in Address |-> TRUE])
    /\ restart_flag = 0
    /\ presence_rx = <<>>
    /\ ble_rx = <<>>
    /\ battery_states = EmptyMap
    /\ now = 0
    /\ ble_battery = 50
    /\ ble_status = TRUE
    /\ emitted = <<>>
    /\ eval = NoEval
    /\ run_value = NoReading
    /\ run_commits = 0
    /\ InitBtc
    /\ InitApp(LOW_BATTERY_DEFAULT)
    /\ InitLife
    /\ InitObservers
    /\ InitStarted

\* every subscription succeeds
AllWatched(S) == UNION {[T -> {"watched"}] : T \in SUBSET S}

BleArmWatched ==
    \E o \in AllWatched(BleDevices), tried \in SUBSET BleDevices :
        GenerationArm(BleWatcher, "LowEnergy", ble_rx, o, tried)

BtcStatusArmWatched ==
    \E o \in AllWatched({BtcAddress}), tried \in SUBSET {BtcAddress} :
        GenerationArm(BtcStatusWatcher, "Classic", btc_rx, o, tried)

\* the Plug-and-Play enumeration returns no battery
PollerScansNothing == PollerScan(EmptyMap)

\* a device appears with the battery and status of the startup scan
DeviceAppears ==
    /\ presence_thread = "running"
    /\ \E a \in Address, resolved \in BOOLEAN :
         PresenceAddedCallback(a, resolved, 50, TRUE)

DeviceDisappears ==
    /\ presence_thread = "running"
    /\ \E a \in Address : PresenceRemovedCallback(a, TypeOf(a))

NextGeneration ==
    \/ DeviceAppears
    \/ DeviceDisappears
    \/ PresenceRecvJoined
    \/ WatcherStop
    \/ PresenceExit
    \/ BleArmWatched
    \/ BleExit
    \/ BtcStatusArmWatched
    \/ BtcStatusExit
    \/ PollerScansNothing
    \/ PollerCheck
    \/ PollerCommit
    \/ PollerExit

SpecGeneration == InitGeneration /\ [][NextGeneration]_vars

----------------------------------------------------------------------------
(* Specification of the generation checks of the three watchers while the  *)
(* exit flag is not set and status updates keep arriving                   *)

NextObserve ==
    \/ BlePresenceAdded
    \/ BlePresenceRemoved
    \/ PresenceRecv
    \/ BleStatusChanged
    \/ BleRecv
    \/ BleArmWatched
    \/ BtcStatusArmWatched
    \/ PollerScansNothing
    \/ PollerCheck
    \/ PollerCommit

\* the select polls its arms in random order, so the generation arm keeps
\* being polled while updates arrive; the poller wakes every second
FairSpecGeneration ==
    /\ InitGeneration
    /\ [][NextObserve]_vars
    /\ WF_vars(BleArmWatched)
    /\ WF_vars(BtcStatusArmWatched)
    /\ WF_vars(PollerScansNothing)
    /\ WF_vars(PollerCheck)
    /\ WF_vars(PollerCommit)

----------------------------------------------------------------------------
(* Specification of the Classic battery poller next to the threads that    *)
(* write the registry: the presence watcher, the Classic status watcher    *)
(* and the generation arms of the two subscribing watchers                 *)

\* the Plug-and-Play enumeration returns a battery for some of the Classic
\* devices of the clone
PollerScans ==
    \E pnp \in UNION {[S -> BatteryLevels] : S \in SUBSET {BtcAddress}} : PollerScan(pnp)

\* the Classic device appears with the battery of the startup scan and the
\* status it reports
BtcPresenceAdded ==
    \E resolved \in BOOLEAN : PresenceAddedCallback(BtcAddress, resolved, 50, btc_status)

BtcPresenceRemoved == PresenceRemovedCallback(BtcAddress, TypeOf(BtcAddress))

NextPoller ==
    \/ BtcPresenceAdded
    \/ BtcPresenceRemoved
    \/ PresenceRecvTracked
    \/ BtcStatusChanged
    \/ BtcStatusRecv
    \/ BtcStatusGenerationArm
    \/ PollerScans
    \/ PollerCheck
    \/ PollerCommit

SpecPoller == InitGeneration /\ [][NextPoller]_vars

----------------------------------------------------------------------------
(* Specification of the updates of a device that the presence watcher      *)
(* removes: one BLE and one Classic device and their battery and status    *)
(* events                                                                  *)

NextStale ==
    \/ BlePresenceAdded
    \/ BlePresenceRemoved
    \/ BtcPresenceAdded
    \/ BtcPresenceRemoved
    \/ PresenceRecvTracked
    \/ BleBatteryChanged
    \/ BleStatusChanged
    \/ BleRecv
    \/ BtcStatusChanged
    \/ BtcStatusRecv

SpecStale == InitGeneration /\ [][NextStale]_vars

----------------------------------------------------------------------------
(* Specification of the two sources of battery values: the notifications   *)
(* of a BLE device and the Plug-and-Play property of a Classic device,     *)
(* each carrying any byte                                                  *)

BleByteNotified == \E battery \in Bytes : BleBatteryCallback(BleAddress, battery)

PollerScansBytes ==
    \E pnp \in UNION {[S -> Bytes] : S \in SUBSET {BtcAddress}} : PollerScan(pnp)

NextBattery ==
    \/ BleByteNotified
    \/ BleRecv
    \/ PollerScansBytes
    \/ PollerCheck
    \/ PollerCommit

SpecBattery == InitGeneration /\ [][NextBattery]_vars

----------------------------------------------------------------------------
(* Specification of the subscriptions of the BLE watcher and of the        *)
(* Classic status watcher, from their startup to their end, with two BLE   *)
(* devices and one Classic device that come and go                         *)

\* watch_loop has spawned the threads; the subscribing watchers have not
\* subscribed yet
InitThreads ==
    /\ InitExtra
    /\ threads = [w \in Watchers |->
                     IF w \in Subscribers THEN "starting" ELSE "running"]
    /\ local_generation = [w \in Watchers |-> 0]
    /\ guard = [w \in Subscribers |-> {}]
    /\ handlers = [slot \in TokenSlots |-> 0]
    /\ poller_pc = "sleep"
    /\ original_btc_devices = EmptyMap
    /\ pnp_devices_info = EmptyMap

InitSubscribe ==
    /\ bluetooth_device_map =
           ScannedRegistry(AllAddress, [a \in AllAddress |-> 50],
                           [a \in AllAddress |-> TRUE])
    /\ restart_flag = 0
    /\ presence_rx = <<>>
    /\ ble_rx = <<>>
    /\ battery_states = EmptyMap
    /\ now = 0
    /\ ble_battery = 50
    /\ ble_status = TRUE
    /\ emitted = <<>>
    /\ eval = NoEval
    /\ run_value = NoReading
    /\ run_commits = 0
    /\ InitBtc
    /\ InitApp(LOW_BATTERY_DEFAULT)
    /\ InitLife
    /\ InitObservers
    /\ InitThreads

BleDeviceAppears ==
    /\ presence_thread = "running"
    /\ \E a \in BleDevices : PresenceAddedCallback(a, TRUE, 50, TRUE)

BleDeviceDisappears ==
    /\ presence_thread = "running"
    /\ \E a \in BleDevices : PresenceRemovedCallback(a, "LowEnergy")

NextSubscribe ==
    \/ BleDeviceAppears
    \/ BleDeviceDisappears
    \/ PresenceRecvJoined
    \/ WatcherStop
    \/ PresenceExit
    \/ BleStartup
    \/ BleGenerationArm
    \/ BleExit
    \/ BtcStatusStartup
    \/ BtcStatusGenerationArm
    \/ BtcStatusExit

SpecSubscribe == InitSubscribe /\ [][NextSubscribe]_vars

----------------------------------------------------------------------------
(* Specification of the four threads from their spawn to their end: the    *)
(* startups may fail, the poller's Plug-and-Play read may fail, and        *)
(* Watcher::stop may or may not be called                                  *)

NextFatal ==
    \/ BleStartup
    \/ BtcStatusStartup
    \/ PollerScansNothing
    \/ PollerScanFails
    \/ PollerCheck
    \/ PollerCommit
    \/ WatcherStop
    \/ PresenceExit
    \/ BleExit
    \/ BtcStatusExit
    \/ PollerExit

SpecFatal == InitSubscribe /\ [][NextFatal]_vars

\* every spawned thread keeps being scheduled: it finishes its startup, goes
\* round its loop and takes its exit arm once the exit flag is set; neither
\* a failure nor a call of Watcher::stop is ever bound to happen
FairSpecFatal ==
    /\ SpecFatal
    /\ WF_vars(BleStartup)
    /\ WF_vars(BtcStatusStartup)
    /\ WF_vars(PollerScansNothing \/ PollerScanFails)
    /\ WF_vars(PollerCheck)
    /\ WF_vars(PollerCommit)
    /\ WF_vars(PresenceExit)
    /\ WF_vars(BleExit)
    /\ WF_vars(BtcStatusExit)
    /\ WF_vars(PollerExit)

----------------------------------------------------------------------------
(* Specification of Watcher::stop: the four threads from their spawn to    *)
(* their end and the joins of stop, with no OS event at all                *)

NextStop ==
    \/ NextFatal
    \/ WatcherJoin

SpecStop == InitSubscribe /\ [][NextStop]_vars

\* the threads are scheduled as in FairSpecFatal, and the thread that called
\* Watcher::stop goes on with its joins
FairSpecStop ==
    /\ SpecStop
    /\ WF_vars(BleStartup)
    /\ WF_vars(BtcStatusStartup)
    /\ WF_vars(PollerScansNothing \/ PollerScanFails)
    /\ WF_vars(PollerCheck)
    /\ WF_vars(PollerCommit)
    /\ WF_vars(PresenceExit)
    /\ WF_vars(BleExit)
    /\ WF_vars(BtcStatusExit)
    /\ WF_vars(PollerExit)
    /\ WF_vars(WatcherJoin)

----------------------------------------------------------------------------
(* Specification of get_btc_devices_info: one call, on every sequence of   *)
(* outcomes of get_pnp_devices and every device list                       *)

InitRetry ==
    /\ bluetooth_device_map = EmptyMap
    /\ restart_flag = 0
    /\ presence_rx = <<>>
    /\ ble_rx = <<>>
    /\ battery_states = EmptyMap
    /\ now = 0
    /\ ble_battery = 50
    /\ ble_status = TRUE
    /\ emitted = <<>>
    /\ eval = NoEval
    /\ run_value = NoReading
    /\ run_commits = 0
    /\ InitBtc
    /\ InitApp(LOW_BATTERY_DEFAULT)
    /\ InitLife
    /\ InitObservers
    /\ InitWatchers
    /\ InitStop
    /\ InitTask
    /\ channel_full = FALSE
    /\ update_pending = NoUpdate
    /\ pnp_calls \in [1..(max_retries + 1) -> PnpOutcomes]
    /\ btc_devices \in UNION {[S -> BOOLEAN] : S \in SUBSET {BtcAddress}}
    /\ scan_result = "none"
    /\ scan_enumerations = 0
    /\ scan_sleeps = 0
    /\ devices_info = EmptyMap

NextRetry == GetBtcDevicesInfo

SpecRetry == InitRetry /\ [][NextRetry]_vars

----------------------------------------------------------------------------
(* Specification of the battery task of btc.rs beside the Classic status   *)
(* watcher and the presence watcher: one Classic device that connects and  *)
(* disconnects, one BLE device that comes and goes                         *)

InitSnapshot ==
    /\ \E s \in BOOLEAN, b \in BatteryLevels :
         /\ bluetooth_device_map =
                ScannedRegistry(Address, [a \in Address |-> 50],
                                [a \in Address |-> IF a = BtcAddress THEN s ELSE TRUE])
         /\ btc_status = s
         /\ pnp_battery = b
    /\ restart_flag = 0
    /\ presence_rx = <<>>
    /\ ble_rx = <<>>
    /\ btc_rx = <<>>
    /\ battery_states = EmptyMap
    /\ now = 0
    /\ ble_battery = 50
    /\ ble_status = TRUE
    /\ emitted = <<>>
    /\ eval = NoEval
    /\ run_value = NoReading
    /\ run_commits = 0
    /\ InitApp(LOW_BATTERY_DEFAULT)
    /\ InitLife
    /\ InitObservers
    /\ InitWatchers
    /\ InitStop
    /\ InitScan
    /\ channel_full = FALSE
    /\ update_pending = NoUpdate
    /\ task_pc = "start"
    /\ task_generation = 0
    /\ btc_snapshot = {}
    /\ task_writes = {}

BatteryTaskPolls == \E readable \in BOOLEAN : BatteryTaskPoll(readable)

NextSnapshot ==
    \/ BatteryTaskStart
    \/ BatteryTaskRestart
    \/ BatteryTaskPolls
    \/ BatteryTaskGetMut
    \/ BatteryTaskExit
    \/ PnpBatteryChanges
    \/ BtcStatusChanged
    \/ BtcStatusRecvSharded
    \/ BlePresenceAdded
    \/ BlePresenceRemoved
    \/ PresenceRecvJoined
    \/ PresenceExit
    \/ WatcherStop

SpecSnapshot == InitSnapshot /\ [][NextSnapshot]_vars

----------------------------------------------------------------------------
(* Specification of a channel under a burst: the Classic device changes    *)
(* its status any number of times before the status watcher receives       *)

NextBurst ==
    \/ BtcStatusBurst
    \/ BtcStatusRecv

SpecBurst == InitStatus /\ [][NextBurst]_vars

----------------------------------------------------------------------------
(* Specification of the presence watcher's registry write and generation   *)
(* increment as two steps, beside the watchers that read the generation    *)

NextOrder ==
    \/ DeviceAppears
    \/ DeviceDisappears
    \/ PresenceRegistryWrite
    \/ PresenceUpdateEvent
    \/ BleArmWatched
    \/ BtcStatusArmWatched
    \/ PollerScansNothing
    \/ PollerCheck
    \/ PollerCommit

SpecOrder == InitGeneration /\ [][NextOrder]_vars

----------------------------------------------------------------------------
(* Properties *)

Range(seq) == {seq[i] : i \in DOMAIN seq}

\* the step is the presence consumer receiving an event of this direction
PresenceRecvOf(presence) ==
    /\ PresenceRecv
    /\ Head(presence_rx).presence = presence

\* C1: on a Removed event the presence watcher removes the entry of a present
\* address and increments the generation by exactly 1; for an absent address
\* the registry is left unchanged (no entry is created), the generation is
\* not incremented and no UpdateTray/Notify signal is raised.
C1_RemovedEvent ==
    [][PresenceRecvOf("Removed") =>
         LET a == Head(presence_rx).info.address IN
         IF a \in DOMAIN bluetooth_device_map
         THEN /\ bluetooth_device_map' = MapRemove(bluetooth_device_map, a)
              /\ restart_flag' = restart_flag + 1
         ELSE /\ bluetooth_device_map' = bluetooth_device_map
              /\ restart_flag' = restart_flag
              /\ emitted' = <<>>]_vars

\* C2: on a resolved Added event the presence watcher inserts the resolved
\* entry of an absent address and increments the generation by exactly 1;
\* for a present address every field of the entry, the generation and the
\* emitted signals are unchanged.
C2_AddedEvent ==
    [][PresenceRecvOf("Added") =>
         LET info == Head(presence_rx).info IN
         IF info.address \notin DOMAIN bluetooth_device_map
         THEN /\ bluetooth_device_map' =
                    MapInsert(bluetooth_device_map, info.address, info)
              /\ restart_flag' = restart_flag + 1
         ELSE /\ bluetooth_device_map' = bluetooth_device_map
              /\ restart_flag' = restart_flag
              /\ emitted' = <<>>]_vars

\* an Added event has just inserted its entry and bumped the generation
C2_Witness ==
    /\ Len(emitted) = 2
    /\ emitted[2].event = "Added"
    /\ restart_flag >= 1
    /\ \E a \in DOMAIN bluetooth_device_map :
         bluetooth_device_map[a].name = emitted[2].name

\* C3: when the battery the BLE device reports has changed to v and stays at
\* v (the device notifies only on a change), the registry battery of the
\* device eventually becomes v.
C3_DebounceProgress ==
    \A v \in BatteryLevels :
        (ble_battery = v) ~>
            (ble_battery # v \/ bluetooth_device_map[BleAddress].battery = v)

\* the last step evaluated a reading against existing debounce state
Evaluated == eval.kind \in {"held", "commit"}

\* the last step wrote the registry battery
Committed == eval.kind \in {"first", "commit"}

\* the value a commit wrote
CommittedValue == IF eval.kind = "first" THEN eval.reading ELSE eval.value_to_report

\* the evaluation left debounce state and registry battery as they were and
\* raised nothing
NothingCommitted ==
    /\ battery_states[eval.address].last_value = eval.before.last_value
    /\ battery_states[eval.address].last_update = eval.before.last_update
    /\ bluetooth_device_map[eval.address].battery = eval.registry_before
    /\ emitted = <<>>

\* the evaluation wrote value v to the registry and to the debounce state
CommitProduced(v) ==
    /\ battery_states[eval.address].last_value = v
    /\ battery_states[eval.address].last_update = eval.at
    /\ bluetooth_device_map[eval.address].battery = v
    /\ UpdateTray \in Range(emitted)

\* C4: with existing debounce state, a reading different from the last
\* committed value that is evaluated at least MINIMUM_UPDATE_INTERVAL after
\* the last commit is committed on that evaluation, whatever the pending
\* state; a reading equal to the last committed value is never committed.
C4_ForcedUpdate ==
    Evaluated =>
        /\ (/\ eval.reading # eval.before.last_value
            /\ eval.at - eval.before.last_update >= MINIMUM_UPDATE_INTERVAL)
               => CommitProduced(eval.reading)
        /\ eval.reading = eval.before.last_value => NothingCommitted

\* a pending value younger than the stability window was force-committed
C4_Witness ==
    /\ eval.kind = "commit"
    /\ eval.forced
    /\ eval.before.pending_state # None
    /\ eval.at - eval.before.last_update >= MINIMUM_UPDATE_INTERVAL

\* the reading differs from the last committed value and equals the pending one
EqualsPending ==
    /\ Evaluated
    /\ eval.reading # eval.before.last_value
    /\ eval.before.pending_state # None
    /\ eval.before.pending_state[1] = eval.reading

\* C5: a reading that differs from the last committed value and equals the
\* pending value is committed when BATTERY_STABILITY_DURATION has elapsed
\* since the pending value was first seen; when less has elapsed and the
\* forced update does not apply, nothing is committed and the pending value
\* and its first-seen time stay as they were.
C5_StabilityRule ==
    EqualsPending =>
        IF eval.at - eval.before.pending_state[2] >= BATTERY_STABILITY_DURATION
        THEN CommitProduced(eval.reading)
        ELSE eval.at - eval.before.last_update < MINIMUM_UPDATE_INTERVAL =>
                /\ NothingCommitted
                /\ battery_states[eval.address].pending_state = eval.before.pending_state

\* a pending value was committed by the stability rule before the forced
\* update applied
C5_Witness ==
    /\ EqualsPending
    /\ eval.kind = "commit"
    /\ eval.stable
    /\ eval.at - eval.before.last_update < MINIMUM_UPDATE_INTERVAL

\* C6: with existing debounce state, a reading equal to the last committed
\* value clears the pending value and commits nothing, whatever time has
\* elapsed: registry battery, last_value and last_update are unchanged and
\* neither UpdateTray nor a LowBattery event is raised.
C6_EqualReading ==
    (Evaluated /\ eval.reading = eval.before.last_value) =>
        /\ battery_states[eval.address].pending_state = None
        /\ battery_states[eval.address].last_value = eval.before.last_value
        /\ battery_states[eval.address].last_update = eval.before.last_update
        /\ bluetooth_device_map[eval.address].battery = eval.registry_before
        /\ \A e \in Range(emitted) : e.event \notin {"UpdateTray", "LowBattery"}

\* a reading equal to the last committed value cleared a pending value after
\* the forced-update interval had elapsed
C6_Witness ==
    /\ Evaluated
    /\ eval.reading = eval.before.last_value
    /\ eval.before.pending_state # None
    /\ eval.at - eval.before.last_update >= MINIMUM_UPDATE_INTERVAL

\* the reading differs from the last committed value and from the pending one
RestartsPending ==
    /\ Evaluated
    /\ eval.reading # eval.before.last_value
    /\ \/ eval.before.pending_state = None
       \/ eval.before.pending_state[1] # eval.reading

\* C7: for a reading r that differs from the last committed value while the
\* pending value differs from r or does not exist, the pending state becomes
\* (r, now) and the stability rule does not commit; only the forced update
\* can commit the reading.
C7_PendingRestart ==
    RestartsPending =>
        /\ eval.pendingA = <<eval.reading, eval.at>>
        /\ ~eval.stable
        /\ IF eval.at - eval.before.last_update >= MINIMUM_UPDATE_INTERVAL
           THEN CommitProduced(eval.reading)
           ELSE /\ NothingCommitted
                /\ battery_states[eval.address].pending_state =
                       <<eval.reading, eval.at>>

\* an older pending value was replaced and its clock restarted
C7_Witness ==
    /\ RestartsPending
    /\ eval.kind = "held"
    /\ eval.before.pending_state # None
    /\ eval.before.pending_state[2] < eval.at

\* C8: after every battery commit the debounce state of the address has
\* last_value = the committed value, last_update = the time of the commit,
\* pending_state = None, and the registry battery equals the committed value.
C8_AfterCommit ==
    Committed =>
        /\ battery_states[eval.address].last_value = CommittedValue
        /\ battery_states[eval.address].last_update = eval.at
        /\ battery_states[eval.address].pending_state = None
        /\ bluetooth_device_map[eval.address].battery = CommittedValue

\* a pending value has just been committed
C8_Witness ==
    /\ eval.kind = "commit"
    /\ eval.pendingA # None
    /\ eval.registry_before # eval.value_to_report

\* C9: every BLE battery commit, the first reading of an address included,
\* raises both UpdateTray and Notify(LowBattery) carrying the committed value.
C9_CommitSignals ==
    Committed =>
        /\ UpdateTray \in Range(emitted)
        /\ NotifyLowBattery(bluetooth_device_map[eval.address].name,
                            CommittedValue, eval.address) \in Range(emitted)

\* C10: a sequence of battery readings that all carry the same value
\* produces only one commit in total, whatever the timing.
C10_Idempotence == run_commits <= 1

\* a reading repeating the committed value of its run was held after the
\* forced-update interval
C10_Witness ==
    /\ run_commits = 1
    /\ eval.kind = "held"
    /\ eval.reading = run_value
    /\ eval.reading = eval.before.last_value
    /\ eval.at - eval.before.last_update >= MINIMUM_UPDATE_INTERVAL

\* the step evaluates, against existing debounce state, a reading that
\* differs from the reading evaluated before it
FluctuatingReading ==
    /\ BleRecv
    /\ eval'.kind \in {"held", "commit"}
    /\ run_value # NoReading
    /\ run_value # eval'.reading

\* C11: while consecutive readings of an address differ from each other and
\* from the last committed value, a reading is committed only when a value
\* has stayed pending for at least BATTERY_STABILITY_DURATION or at least
\* MINIMUM_UPDATE_INTERVAL has elapsed since the last commit.
C11_FluctuatingReadings ==
    [][(FluctuatingReading /\ eval'.kind = "commit") =>
          \/ /\ eval'.before.pending_state # None
             /\ eval'.before.pending_state[1] = eval'.reading
             /\ eval'.at - eval'.before.pending_state[2] >= BATTERY_STABILITY_DURATION
          \/ eval'.at - eval'.before.last_update >= MINIMUM_UPDATE_INTERVAL]_vars

\* a reading that differs from the reading before it and from the pending
\* value was committed by the forced update
C11_Witness ==
    /\ eval.kind = "commit"
    /\ eval.forced
    /\ eval.before.pending_state # None
    /\ eval.before.pending_state[1] # eval.reading
    /\ eval.before.pending_state[1] # eval.before.last_value
    /\ eval.reading # eval.before.last_value

\* the last step evaluated the k-th reading of the pattern
PatternReading(k) ==
    /\ scenario.n = k
    /\ Evaluated
    /\ eval.at = scenario.at
    /\ eval.reading = Pattern[k]

\* C12: the readings 42, 41, 42, 42, 42 arriving one spacing (5 s) apart
\* produce no commit before the third consecutive 42, and at that reading,
\* two spacings (10 s) after the third reading made 42 pending, 42 is still
\* pending with its first-seen time and has not been committed.
C12_Scenario ==
    \A k \in DOMAIN Pattern :
        PatternReading(k) =>
            /\ scenario.commits = 0
            /\ k >= 3 => battery_states[eval.address].pending_state =
                             <<Pattern[3], scenario.at - (k - 3) * ReadingSpacing>>

\* C12 (amended): when the last commit, of a value other than 41 and 42, was
\* made less than one spacing before the first reading, the readings 42, 41,
\* 42, 42, 42 produce no commit before the third consecutive 42; the 42 made
\* pending by the third reading is still pending at the fourth, and the
\* fifth reading commits it by the forced update, MINIMUM_UPDATE_INTERVAL
\* after the last commit, while its pending age is two spacings, less than
\* BATTERY_STABILITY_DURATION.
C12_ScenarioForced ==
    \A k \in DOMAIN Pattern :
        PatternReading(k) =>
            IF k < Len(Pattern)
            THEN /\ scenario.commits = 0
                 /\ eval.kind = "held"
                 /\ k >= 3 => battery_states[eval.address].pending_state =
                                  <<Pattern[3], scenario.at - (k - 3) * ReadingSpacing>>
            ELSE /\ scenario.commits = 1
                 /\ eval.kind = "commit"
                 /\ eval.forced
                 /\ ~eval.stable
                 /\ eval.before.pending_state =
                        <<Pattern[3], eval.at - 2 * ReadingSpacing>>
                 /\ eval.at - eval.before.pending_state[2] < BATTERY_STABILITY_DURATION
                 /\ eval.at - eval.before.last_update >= MINIMUM_UPDATE_INTERVAL
                 /\ CommitProduced(Pattern[Len(Pattern)])

\* the fifth reading of the pattern has just been evaluated
C12_Witness ==
    /\ PatternReading(Len(Pattern))
    /\ bluetooth_device_map[eval.address].battery = Pattern[Len(Pattern)]

\* the step is a status watcher receiving (address, status) for an address
\* of the registry
StatusRecvOf(address, status) ==
    /\ address \in DOMAIN bluetooth_device_map
    /\ \/ /\ BleRecv
          /\ Head(ble_rx).kind = "ConnectionStatus"
          /\ Head(ble_rx).address = address
          /\ Head(ble_rx).value = status
       \/ /\ BtcStatusRecv
          /\ Head(btc_rx).address = address
          /\ Head(btc_rx).status = status

\* C13: a ConnectionStatus event, BLE or Classic, for an address of the
\* registry writes a status that differs from the entry's at once, whatever
\* the time, and raises exactly one Reconnect (true) or Disconnect (false)
\* notify event and exactly one UpdateTray; an equal status changes nothing
\* and raises nothing; the battery debounce state is left as it is.
C13_StatusBypassesDebounce ==
    [][\A address \in Address, status \in BOOLEAN :
         StatusRecvOf(address, status) =>
            LET info == bluetooth_device_map[address] IN
            /\ battery_states' = battery_states
            /\ IF info.status # status
               THEN /\ bluetooth_device_map' =
                          [bluetooth_device_map EXCEPT ![address].status = status]
                    /\ Len(emitted') = 2
                    /\ UpdateTray \in Range(emitted')
                    /\ (IF status THEN NotifyReconnect(info.name)
                                  ELSE NotifyDisconnect(info.name)) \in Range(emitted')
               ELSE /\ bluetooth_device_map' = bluetooth_device_map
                    /\ emitted' = <<>>]_vars

\* a Classic disconnect has just been written while a BLE battery value is
\* pending in the debounce state
C13_Witness ==
    /\ NotifyDisconnect(NameOf(BtcAddress)) \in Range(emitted)
    /\ ~bluetooth_device_map[BtcAddress].status
    /\ now > 0
    /\ BleAddress \in DOMAIN battery_states
    /\ battery_states[BleAddress].pending_state # None

\* the last step handled a LowBattery event
HandledLowBattery == handled.event = "LowBattery"

\* the notifier raised a low-battery toast for the handled event
LowBatteryNotified ==
    handled.toasts = <<Toast(handled.notify.name, handled.notify.battery)>>

\* C14: for an address not in the notified set, a LowBattery event raises a
\* low-battery notification and adds the address to the set if and only if
\* the battery value is below the threshold.
C14_BelowThreshold ==
    (HandledLowBattery /\ handled.notify.address \notin handled.notified_before) =>
        ((LowBatteryNotified /\ handled.notify.address \in notified_devices)
            <=> handled.notify.battery < low_battery)

\* C14 (amended): for an address not in the notified set, a LowBattery event
\* raises a low-battery notification and adds the address to the set if and
\* only if the battery value is below or equal to the threshold; otherwise
\* it raises nothing and the address stays out of the set.
C14_AtOrBelowThreshold ==
    (HandledLowBattery /\ handled.notify.address \notin handled.notified_before) =>
        IF handled.notify.battery <= low_battery
        THEN /\ LowBatteryNotified
             /\ notified_devices = handled.notified_before \cup {handled.notify.address}
        ELSE /\ handled.toasts = <<>>
             /\ notified_devices = handled.notified_before

\* a battery value equal to the threshold has raised the notification
C14_Witness ==
    /\ HandledLowBattery
    /\ handled.notify.address \notin handled.notified_before
    /\ handled.notify.battery = low_battery
    /\ LowBatteryNotified
    /\ handled.notify.address \in notified_devices

\* C15: an address leaves the notified set only through a LowBattery event
\* for it whose value is more than HYSTERESIS above the threshold, and
\* clearing raises no notification; a LowBattery event whose value lies in
\* (threshold, threshold + HYSTERESIS] leaves the set unchanged and raises
\* no notification.
C15_Clearing ==
    /\ handled.event # "none" =>
          \A a \in handled.notified_before \ notified_devices :
              /\ HandledLowBattery
              /\ handled.notify.address = a
              /\ handled.notify.battery > low_battery + HYSTERESIS
              /\ handled.toasts = <<>>
    /\ (/\ HandledLowBattery
        /\ handled.notify.battery > low_battery
        /\ handled.notify.battery <= low_battery + HYSTERESIS)
          => /\ notified_devices = handled.notified_before
             /\ handled.toasts = <<>>

\* a notified address has kept its flag at a value inside the band whose
\* upper end lies beyond the u8 range
C15_Witness ==
    /\ HandledLowBattery
    /\ handled.notify.address \in handled.notified_before
    /\ handled.notify.address \in notified_devices
    /\ handled.notify.battery > low_battery
    /\ low_battery + HYSTERESIS > 255

\* C16: under a threshold that stays as it is, after a low-battery
\* notification has fired for an address no second one fires until an event
\* with value greater than threshold + HYSTERESIS has been handled for that
\* address, whatever events are handled for other addresses.
C16_ExactlyOnce == \A a \in Address : low_notices[a] <= 1

\* a second low event of a notified address was handled without a toast
\* while the other address went through its own notification
C16_Witness ==
    /\ HandledLowBattery
    /\ handled.notify.battery <= low_battery
    /\ handled.notify.address \in handled.notified_before
    /\ handled.toasts = <<>>
    /\ \A a \in Address : low_notices[a] = 1

\* C17: when a device in the notified low-battery state has disconnected and
\* reconnected and its battery is at threshold + 15, the notified flag of
\* its address is eventually cleared; when its battery afterwards is below
\* the threshold, a low-battery notification is eventually raised again.
C17_ReconnectScenario ==
    /\ (phase = "reconnected" /\ ble_battery = RisenBatteryValue)
          ~> (BleAddress \notin notified_devices \/ ble_battery # RisenBatteryValue)
    /\ (phase = "cleared" /\ ble_battery = LowBatteryValue)
          ~> (phase = "notified" \/ ble_battery # LowBatteryValue)

\* the events of these kinds among the proxy.send_event calls of a step
EventsOf(signals, kinds) == {i \in DOMAIN signals : signals[i].event \in kinds}

\* C18: each generation increment of the presence watcher comes with exactly
\* one UpdateTray and exactly one notify event, Notify(Added) exactly when
\* an Added event inserted an entry and Notify(Removed) exactly when a
\* Removed event removed an entry.
C18_IncrementSignals ==
    [][restart_flag' # restart_flag =>
         LET a == Head(presence_rx).info.address IN
         /\ Cardinality(EventsOf(emitted', {"UpdateTray"})) = 1
         /\ Cardinality(EventsOf(emitted', {"Added", "Removed"})) = 1
         /\ Len(emitted') = 2
         /\ EventsOf(emitted', {"Added"}) # {} <=>
               /\ PresenceRecvOf("Added")
               /\ a \notin DOMAIN bluetooth_device_map
               /\ a \in DOMAIN bluetooth_device_map'
         /\ EventsOf(emitted', {"Removed"}) # {} <=>
               /\ PresenceRecvOf("Removed")
               /\ a \in DOMAIN bluetooth_device_map
               /\ a \notin DOMAIN bluetooth_device_map']_vars

\* the new addresses whose Added callback resolved the device info
ResolvedAddresses == {a \in Address : resolutions[a] = "resolved"}

\* C19: an Added event whose device info cannot be resolved changes neither
\* the registry nor the generation: once the channel is drained the registry
\* holds the scanned addresses and exactly the new addresses whose Added
\* event was resolved, and the generation is the number of those; with two
\* new addresses of which one fails, one entry and one increment.
C19_ResolutionFailure ==
    /\ \A a \in Address : resolutions[a] = "failed" => a \notin DOMAIN bluetooth_device_map
    /\ presence_rx = <<>> =>
          /\ DOMAIN bluetooth_device_map =
                {a \in Address : resolutions[a] = "scanned"} \cup ResolvedAddresses
          /\ restart_flag = Cardinality(ResolvedAddresses)

\* of two new addresses one was resolved and one failed, and both callbacks
\* have been handled
C19_Witness ==
    /\ presence_rx = <<>>
    /\ \E a, b \in Address :
          /\ resolutions[a] = "resolved"
          /\ resolutions[b] = "failed"
          /\ DOMAIN bluetooth_device_map = {a}
    /\ restart_flag = 1

\* C20: from Watcher::start until the watcher threads have terminated, the
\* generation counter equals the number of presence events that changed the
\* registry so far.
C20_GenerationCount ==
    presence_thread = "running" => restart_flag = registry_changes

\* C21: in every reachable state, also while Watcher::stop is executing and
\* the watcher threads are still alive, the local_generation of each watcher
\* is less than or equal to the shared generation counter.
C21_LocalGeneration ==
    \A w \in Watchers :
        threads[w] = "running" => local_generation[w] <= restart_flag

\* C22: while the exit flag is not set, every running watcher whose
\* local_generation is behind the generation counter eventually reaches a
\* local_generation equal to the counter, also after several increments and
\* while update events keep arriving.
C22_GenerationObserved ==
    \A w \in Watchers :
        (~exit_flag /\ threads[w] = "running" /\ local_generation[w] < restart_flag)
            ~> (local_generation[w] = restart_flag \/ exit_flag
                \/ threads[w] # "running")

\* every watcher has caught up with a generation that was incremented more
\* than once, while an update waits in the channel of the BLE watcher
C22_Witness ==
    /\ ~exit_flag
    /\ restart_flag >= 2
    /\ ble_rx # <<>>
    /\ \A w \in Watchers :
         threads[w] = "running" /\ local_generation[w] = restart_flag

\* the step is the battery poller comparing and writing a device of its clone
PollerCommitStep == poller_pc = "checked" /\ poller_pc' = "sleep"

\* C23: a battery commit of the Classic battery poller changes only the
\* battery field of the entry as it is at commit time: it never reverts a
\* newer connection status to the one of the poller's clone and never
\* re-creates an entry removed after the clone was taken.
C23_NoLostUpdate ==
    [][PollerCommitStep =>
          /\ DOMAIN bluetooth_device_map' = DOMAIN bluetooth_device_map
          /\ \A a \in DOMAIN bluetooth_device_map :
                bluetooth_device_map'[a] =
                    [bluetooth_device_map[a] EXCEPT
                        !.battery = bluetooth_device_map'[a].battery]]_vars

\* the step is the presence watcher receiving an event
PresenceRecvStep == presence_rx # <<>> /\ presence_rx' = Tail(presence_rx)

\* C24: the addresses of the registry are inserted or removed only by the
\* presence watcher; the BLE watcher, the Classic status watcher and the
\* Classic battery poller never add or remove an address.
C24_MutatorRoles ==
    [][DOMAIN bluetooth_device_map' # DOMAIN bluetooth_device_map
          => PresenceRecvStep]_vars

\* the step is a watcher receiving a battery or status event of address a
UpdateRecvOf(a) ==
    \/ ble_rx # <<>> /\ ble_rx' = Tail(ble_rx) /\ Head(ble_rx).address = a
    \/ btc_rx # <<>> /\ btc_rx' = Tail(btc_rx) /\ Head(btc_rx).address = a

\* C25: after the presence watcher has removed address A, a BLE battery or
\* status event or a Classic status event for A that is handled afterwards
\* leaves the registry without an entry for A and raises no UpdateTray and
\* no notify event.
C25_NoStaleCommit ==
    [][\A a \in removed_addresses :
          UpdateRecvOf(a) => a \notin DOMAIN bluetooth_device_map' /\ emitted' = <<>>]_vars

\* C26: in every reachable state the addresses that have battery debounce
\* state are addresses of the registry: the debounce state of a device is
\* discarded when the device is removed, so that a device added again is
\* evaluated with no state left over.
C26_DebounceLifetime == DOMAIN battery_states \subseteq DOMAIN bluetooth_device_map

\* C27: in every reachable state the battery of every registry entry is
\* within 0..100, whatever byte a BLE battery notification or a
\* Plug-and-Play battery property carries.
C27_ValidPercentage ==
    \A a \in DOMAIN bluetooth_device_map : bluetooth_device_map[a].battery \in 0..100

\* watcher w runs after the step and holds the subscription of every device
\* whose outcome in o was success
Isolated(w, o) ==
    /\ threads'[w] = "running"
    /\ {a \in DOMAIN o : o[a] = "watched"} \subseteq guard'[w]

\* C28: when establishing the subscription of one device fails, at watcher
\* startup as well as on a generation-triggered resubscribe, only that
\* device is excluded: the watcher keeps running and the subscriptions of
\* all other devices are established.
C28_FailureIsolation ==
    [][/\ \A o \in UNION {[S -> BleOutcomes] : S \in SUBSET BleDevices},
             S \in SUBSET BleDevices :
             (Startup(BleWatcher, "LowEnergy", o, S)
              \/ GenerationArm(BleWatcher, "LowEnergy", ble_rx, o, S))
                 => Isolated(BleWatcher, o)
       /\ \A o \in UNION {[S -> BtcOutcomes] : S \in SUBSET {BtcAddress}},
             S \in SUBSET {BtcAddress} :
             (Startup(BtcStatusWatcher, "Classic", o, S)
              \/ GenerationArm(BtcStatusWatcher, "Classic", btc_rx, o, S))
                 => Isolated(BtcStatusWatcher, o)]_vars

\* C29: every handler a subscribing watcher registered has been removed
\* by RemoveConnectionStatusChanged / RemoveValueChanged when the watcher
\* has finished, on whichever path it finished.
C29_TokensReleased ==
    \A w \in Subscribers :
        threads[w] \in {"ok", "err"} =>
            \A slot \in SlotsOf(IF w = BleWatcher THEN BleDevices ELSE {BtcAddress}) :
                handlers[slot] = 0

\* all four threads have returned
AllTerminated ==
    /\ presence_thread = "done"
    /\ \A w \in Watchers : threads[w] \in {"ok", "err"}

\* C30: once one watcher thread has ended with an error, the other watcher
\* threads are shut down too: eventually all four threads have terminated,
\* whether or not Watcher::stop is called.
C30_FatalStopsAll ==
    (\E w \in Watchers : threads[w] = "err") ~> AllTerminated

\* Watcher::stop has joined every handle
StopReturned == joined = Len(WatchHandles)

\* the handles whose thread returned an error, in the order of the joins
ErrorHandles ==
    SelectSeq(WatchHandles,
              LAMBDA h : \E i \in 1..Len(WatchHandles) :
                             WatchHandles[i] = h /\ HandleState(i) = "err")

\* C31: after Watcher::stop has set the exit flag, with no OS event arriving,
\* every one of the four threads terminates and stop returns; stop returns
\* only when all four threads have terminated, and by then it has reported
\* the error of each failed watcher exactly once.
C31_ShutdownTerminates ==
    /\ exit_flag ~> (StopReturned /\ AllTerminated)
    /\ [](StopReturned => AllTerminated /\ stop_notices = ErrorHandles)

\* stop has returned after reporting a watcher error
C31_Witness == StopReturned /\ stop_notices # <<>>

\* C32: when the enumeration of the Plug-and-Play devices fails during
\* get_btc_devices_info it is attempted a second time after a delay: an
\* error is returned only after max_retries failed attempts, and never more
\* than max_retries attempts are made.
C32_BoundedRetry ==
    scan_result # "none" =>
        /\ scan_enumerations <= max_retries
        /\ scan_result = "Err" =>
               scan_enumerations = max_retries /\ scan_sleeps = max_retries - 1

\* C33: a failure of the Plug-and-Play read in one round of the Classic
\* battery poller abandons only that round: the thread stays alive, the
\* registry is left as it is, and the poller is back in its sleep loop.
C33_CycleAbandoned ==
    [][PollerScanFails =>
          /\ threads'[BtcBatteryWatcher] = "running"
          /\ poller_pc' = "sleep"
          /\ bluetooth_device_map' = bluetooth_device_map]_vars

\* C34: in every polling cycle of the battery task of btc.rs, every
\* connected Classic entry of the registry whose freshly read battery
\* differs from its registry battery is taken for a write, whether or not
\* it was connected at the task's last snapshot, and the write is made.
C34_EveryClassicPolled ==
    [][/\ BatteryTaskPoll(TRUE) =>
             \A a \in ConnectedClassic(bluetooth_device_map) :
                 bluetooth_device_map[a].battery # pnp_battery
                     => <<a, pnp_battery>> \in task_writes'
       /\ BatteryTaskGetMut =>
             \E w \in task_writes :
                 /\ w[1] \in DOMAIN bluetooth_device_map'
                 /\ bluetooth_device_map'[w[1]].battery = w[2]]_vars

\* C37: the battery task of btc.rs holds no read guard on the registry
\* when it calls get_mut, and never waits for ever at get_mut.
C37_NoGuardAtGetMut ==
    /\ task_pc = "write" => btc_snapshot = {}
    /\ task_pc # "blocked"

\* the kind of devices a subscribing watcher subscribes to
KindOf(w) == IF w = BleWatcher THEN "LowEnergy" ELSE "Classic"

\* watcher w holds a subscription for exactly the registry's devices of its
\* kind
Resubscribed(w) == guard[w] = DevicesOfType(bluetooth_device_map, KindOf(w))

\* C35: after a generation increment, with every resolution and subscription
\* succeeding and the exit flag not set, each subscribing watcher eventually
\* holds a subscription for exactly the registry's devices of its kind,
\* whatever update events arrive meanwhile; a watcher that has caught up
\* with the generation has left no added device unsubscribed.
C35_ResubscriptionCompletes ==
    \A w \in Subscribers :
        /\ (~exit_flag /\ threads[w] = "running"
                /\ local_generation[w] < restart_flag)
              ~> (Resubscribed(w) \/ exit_flag \/ threads[w] # "running")
        /\ [](~exit_flag /\ threads[w] = "running"
                 /\ local_generation[w] = restart_flag => Resubscribed(w))

\* C36: no update event built by an OS callback is dropped, also when more
\* than ChannelCapacity events are produced before the consumer runs: every
\* try_send finds room in its channel.
C36_NoEventLoss == ~channel_full

\* C38: the presence watcher writes the registry before it increments the
\* generation: the generation never counts a presence change the registry
\* does not yet hold, and a watcher that takes over generation g reads a
\* registry that holds every presence change counted in g.
C38_RegistryBeforeGeneration ==
    /\ [](restart_flag <= registry_changes)
    /\ [][\A w \in Watchers :
             local_generation'[w] # local_generation[w]
                 => local_generation'[w] <= registry_changes]_vars

\* a watcher has taken over a generation while the presence watcher is
\* between the registry write and the increment of the next change
C38_Witness ==
    /\ update_pending # NoUpdate
    /\ \E w \in Watchers : local_generation[w] = restart_flag /\ restart_flag >= 1

\* C39: every value the BLE battery debounce commits equals the reading
\* being evaluated at the commit: the first reading of an address, a
\* stability commit and a forced commit all write the current reading, and
\* at a forced commit the pending value, when one exists, is that reading.
C39_CommitIsCurrentReading ==
    Committed =>
        /\ CommittedValue = eval.reading
        /\ bluetooth_device_map[eval.address].battery = eval.reading
        /\ (eval.kind = "commit" /\ eval.forced /\ eval.pendingA # None)
               => eval.pendingA[1] = eval.reading

\* a forced commit took its value from a pending state that replaced an
\* older pending value on the same evaluation
C39_Witness ==
    /\ eval.kind = "commit"
    /\ eval.forced
    /\ eval.pendingA # None
    /\ eval.value_to_report = eval.pendingA[1]
    /\ eval.before.pending_state # None
    /\ eval.before.pending_state[1] # eval.reading

\* C40: two consecutive battery commits of an address by the BLE debounce,
\* the commit of the first reading included as the earlier one, are at
\* least BATTERY_STABILITY_DURATION apart; a stability commit reports a
\* pending value first seen no earlier than the previous commit, a forced
\* commit comes MINIMUM_UPDATE_INTERVAL or more after the previous commit.
C40_Throttle ==
    eval.kind = "commit" =>
        /\ eval.at - eval.before.last_update >= BATTERY_STABILITY_DURATION
        /\ eval.stable =>
               /\ eval.before.pending_state # None
               /\ eval.before.pending_state[2] >= eval.before.last_update
               /\ eval.at - eval.before.pending_state[2] >= BATTERY_STABILITY_DURATION
        /\ eval.forced =>
               eval.at - eval.before.last_update >= MINIMUM_UPDATE_INTERVAL

\* a stability commit exactly BATTERY_STABILITY_DURATION after the commit
\* before it
C40_Witness ==
    /\ eval.kind = "commit"
    /\ eval.stable
    /\ eval.at - eval.before.last_update = BATTERY_STABILITY_DURATION

====
